---- MODULE Spec2Model ----
(***************************************************************************)
(* Model of scripts/viking_daemon.py: the real-time context sync daemon.   *)
(*                                                                         *)
(* The session tracker, the exporter and the outbox are modelled as one    *)
(* state machine (Spec).  Every handler of SessionTracker is one action;   *)
(* a handler whose outcome depends on the environment (the result of a     *)
(* POST, of a file write) is computed as the SET of states it can end in,  *)
(* and the action picks one of them.                                       *)
(*                                                                         *)
(*   Spec      the tracker, the idle sweep, the exporter and the outbox,   *)
(*             the tailers seen as the source of _upsert_session calls    *)
(*   LiveSpec  the same loop over quiet sources, with fairness, for the    *)
(*             draining of the outbox                                      *)
(*   TailSpec  the tailers, their cursors and the files they read          *)
(*   MainSpec  main() from the start of the process to its exit            *)
(*   MainLiveSpec  MainSpec with fairness, for the shutdown of the loop    *)
(*   SleepSpec next_sleep_interval over drawn tracker states               *)
(*   BatchSpec one outbox retry over an outbox of more than eight files    *)
(*   AgSpec    the walkthrough tailer and the files it watches             *)
(*   KiloSpec  a JSONL source with two candidate paths: refresh and tail   *)
(***************************************************************************)
EXTENDS Integers, Sequences, FiniteSets, TLC

(***************************************************************************)
(* Bounds of the model (not program constants).                            *)
(***************************************************************************)
\* number of events the tailers deliver to the tracker in one run
MaxEvents == 4
\* seconds of wall-clock time explored after the daemon's start
Horizon == 3
\* longest time that passes between two passes (sleep plus pass duration)
MaxSleep == 2
\* files found in the outbox when the daemon starts (left by earlier runs)
MaxPending == 2
\* writes to the monitored log files in a run of TailSpec
MaxFileOps == 2
\* passes of main()'s loop in a run of TailSpec
MaxPasses == 2

(***************************************************************************)
(* Program configuration.  All of these are read from the environment at   *)
(* import time (viking_daemon.py:43-53); the values below are a small      *)
(* configuration of the same daemon, the defaults being 300 / 7200 / 240 / *)
(* 500 / 60.                                                               *)
(***************************************************************************)
IDLE_TIMEOUT_SEC == 1
SESSION_TTL_SEC == 2
MAX_TRACKED_SESSIONS == 2
MAX_MESSAGES_PER_SESSION == 4
PENDING_RETRY_INTERVAL_SEC == 5
\* sess["messages"][-200:], a literal of the code
KEEP_ON_OVERFLOW == 200
\* min_messages = 4 if source.startswith("shell_") else 2
MIN_MESSAGES_SHELL == 4
MIN_MESSAGES_OTHER == 2
\* messages[-60:]
EXPORT_LAST_MESSAGES == 60
\* pending[:8]
RETRY_BATCH == 8
\* VIKING_POLL_INTERVAL_SEC (default 30), VIKING_FAST_POLL_INTERVAL_SEC (default
\* 3, floor 1)
POLL_INTERVAL_SEC == 4
FAST_POLL_INTERVAL_SEC == 1
\* max(15, FAST_POLL_INTERVAL_SEC * 4), literals of the code
ACTIVITY_WINDOW_MIN == 15
ACTIVITY_WINDOW_FACTOR == 4
\* VIKING_MAX_FILE_CURSORS (default 800)
MAX_FILE_CURSORS == 1
\* if cycle % 60 == 0, a literal of the code
CLEANUP_EVERY == 60

\* time.time() at the daemon's start: seconds since 1970, so far beyond every
\* interval that _last_pending_retry = 0.0 never delays the first retry.
StartTime == PENDING_RETRY_INTERVAL_SEC
MaxTime == StartTime + Horizon

(***************************************************************************)
(* Inputs.  A session-id is <<first 12 characters, rest>>, so that         *)
(* sid[:12] is its first component.                                        *)
(***************************************************************************)
SIDS == { <<"sess-aaaa", "1">>, <<"sess-aaaa", "2">>, <<"shell_zsh_20", "231114">> }
TEXTS == { "x", "y" }

Sid12(sid) == sid[1]

SourceOfSid(sid) == IF sid[1] = "shell_zsh_20" THEN "shell_zsh" ELSE "claude_code"

\* source.startswith("shell_")
IsShell(source) == source \in {"shell_zsh", "shell_bash"}

\* hashlib.md5(text).hexdigest(): distinct texts have distinct digests, and no
\* digest is the empty string a fresh session starts with.
Md5(text) == <<"md5", text>>

Min(a, b) == IF a <= b THEN a ELSE b
Max(a, b) == IF a >= b THEN a ELSE b

\* seq[-n:]
LastN(seq, n) == IF Len(seq) <= n THEN seq ELSE SubSeq(seq, Len(seq) - n + 1, Len(seq))

\* del d[k] on a dict kept as a function
DropKey(f, k) == [x \in DOMAIN f \ {k} |-> f[x]]

\* d[k] = v on a dict kept as a function
PutKey(f, k, v) == [x \in DOMAIN f \cup {k} |-> IF x = k THEN v ELSE f[x]]

\* a list without the element k
RECURSIVE SeqWithout(_, _)
SeqWithout(s, k) ==
  IF s = <<>> THEN <<>>
  ELSE IF Head(s) = k THEN SeqWithout(Tail(s), k)
  ELSE <<Head(s)>> \o SeqWithout(Tail(s), k)

VARIABLES
  now,              \* time.time()
  pc,               \* position of main()'s loop
  sessions,         \* SessionTracker.sessions: sid -> session record
  order,            \* insertion order of the sessions dict
  artifacts,        \* files under history/: name -> content
  outbox,           \* files under history/.pending: name -> [content, mtime]
  exportCount,      \* SessionTracker._export_count
  lastActivity,     \* SessionTracker._last_activity_ts
  lastPendingRetry, \* SessionTracker._last_pending_retry
  httpClient,       \* SessionTracker._http_client is not None
  remote,           \* "up": every POST answers < 300; "flaky": any outcome
  postOK,           \* history: basenames for which a POST returned < 300
  postFailed,       \* history: basenames for which a POST failed
  everOutbox,       \* history: basenames that were ever written to the outbox
  exportLog,        \* history: what each _export call of the latest sweep did
  retryLog,         \* history: the POSTs of the latest outbox retry, in order
  events,           \* number of events delivered so far
  \* -- the tailers (TailSpec)
  files,            \* the monitored log files: path -> [exists, lines]
  file_cursors,     \* SessionTracker.file_cursors: cursor key -> offset
  active_jsonl,     \* SessionTracker.active_jsonl: source -> active path
  active_shell,     \* SessionTracker.active_shell: source -> active path
  errorCount,       \* SessionTracker._error_count
  tpc,              \* position inside the pass over the tailers
  tail,             \* locals of the tail step in progress (cur_size, last)
  cycle,            \* main()'s cycle counter, modulo CLEANUP_EVERY
  passLog,          \* history: the tail steps of the current pass
  passStart,        \* history: file_cursors when the current pass began
  fileOps,          \* number of writes to the log files so far
  passes,           \* number of passes started so far
  \* -- main() (MainSpec)
  url,              \* OPENVIKING_URL: [scheme, loopback]
  shutdown,         \* the _shutdown flag
  interval,         \* the configured intervals, and the sleep main() computed last
  \* -- the walkthrough tailer (AgSpec)
  walkthroughs,     \* brain/<sid>/walkthrough.md: sid -> [mtime, content]
  antigravity_sessions, \* SessionTracker.antigravity_sessions: sid -> mtime
  agLog,            \* history: the _export calls poll_antigravity made
  san_text,         \* the argument of a _sanitize_text call, as a sequence of runs
  san_out           \* history: what _sanitize_text returned, applied again to its result

trackerVars == << sessions, order, artifacts, outbox, exportCount, lastActivity,
                  lastPendingRetry, postOK, postFailed, everOutbox, exportLog,
                  retryLog >>
tailVars == << files, file_cursors, active_jsonl, active_shell, errorCount, tpc, tail,
               cycle, passLog, passStart, fileOps, passes >>
mainVars == << url, shutdown, interval >>
agVars == << walkthroughs, antigravity_sessions, agLog >>
sanVars == << san_text, san_out >>

vars == << now, pc, httpClient, remote, events, trackerVars, tailVars, mainVars, agVars,
          sanVars >>

(***************************************************************************)
(* The tracker's state as one record, threaded through the handlers.       *)
(* raised: an exception is propagating out of the handler.  since: what    *)
(* _last_pending_retry was when the retry batch under way began.           *)
(***************************************************************************)
Tracker ==
  [ sessions |-> sessions, order |-> order, artifacts |-> artifacts, outbox |-> outbox,
    exportCount |-> exportCount, lastActivity |-> lastActivity,
    lastPendingRetry |-> lastPendingRetry, postOK |-> postOK, postFailed |-> postFailed,
    everOutbox |-> everOutbox, exportLog |-> exportLog, retryLog |-> retryLog,
    raised |-> FALSE, since |-> 0 ]

Install(T) ==
  /\ sessions' = T.sessions
  /\ order' = T.order
  /\ artifacts' = T.artifacts
  /\ outbox' = T.outbox
  /\ exportCount' = T.exportCount
  /\ lastActivity' = T.lastActivity
  /\ lastPendingRetry' = T.lastPendingRetry
  /\ postOK' = T.postOK
  /\ postFailed' = T.postFailed
  /\ everOutbox' = T.everOutbox
  /\ exportLog' = T.exportLog
  /\ retryLog' = T.retryLog

(***************************************************************************)
(* SessionTracker._evict_oldest                                            *)
(***************************************************************************)
\* min(items, key=last_seen): the first of the minimal ones in dict order
RECURSIVE FirstMin(_, _, _)
FirstMin(T, cands, best) ==
  IF cands = <<>> THEN best
  ELSE IF T.sessions[Head(cands)].last_seen < T.sessions[best].last_seen
       THEN FirstMin(T, Tail(cands), Head(cands))
       ELSE FirstMin(T, Tail(cands), best)

ExportedIn(T) == SelectSeq(T.order, LAMBDA k : T.sessions[k].exported)

\* a variant that evicts nothing when no session is exported yet
EvictOnlyExported(T) ==
  LET exported == ExportedIn(T)
  IN IF exported = <<>> THEN T
     ELSE LET oldest == FirstMin(T, Tail(exported), Head(exported))
          IN [T EXCEPT !.sessions = DropKey(@, oldest), !.order = SeqWithout(@, oldest)]

\* a variant that evicts the session seen longest ago, exported or not
EvictOldestOfAll(T) ==
  LET oldest == FirstMin(T, Tail(T.order), Head(T.order))
  IN [T EXCEPT !.sessions = DropKey(@, oldest), !.order = SeqWithout(@, oldest)]

EvictOldest(T) ==
  LET exported == ExportedIn(T)
      pool == IF exported # <<>> THEN exported ELSE T.order
      oldest == FirstMin(T, Tail(pool), Head(pool))
  IN [T EXCEPT !.sessions = DropKey(@, oldest), !.order = SeqWithout(@, oldest)]

(***************************************************************************)
(* SessionTracker._upsert_session                                          *)
(***************************************************************************)
NewSession(source, evicting) ==
  [ last_seen |-> now, messages |-> <<>>, exported |-> FALSE, source |-> source,
    last_hash |-> "",
    \* history: number of times the exporter was invoked for this session, what
    \* the idle sweep found when it first saw the session idle, whether
    \* inserting the session evicted another one, and the latest invocation of
    \* the exporter for it: the time of the sweep, its rank among the
    \* invocations of that sweep, and last_seen at that time
    calls |-> 0, firstIdle |-> "none", evicting |-> evicting,
    issued |-> [at |-> 0, nth |-> 0, last_seen |-> 0] ]

Appended(msgs, text) ==
  LET all == Append(msgs, text)
  IN IF Len(all) > MAX_MESSAGES_PER_SESSION THEN LastN(all, KEEP_ON_OVERFLOW) ELSE all

\* a variant in which a repeated text still counts as activity
UpsertTouchingOnRepeat(T, sid, source, text) ==
  LET T1 == IF sid \in DOMAIN T.sessions THEN T
            ELSE LET full == Len(T.order) >= MAX_TRACKED_SESSIONS
                     Te == IF full THEN EvictOldest(T) ELSE T
                 IN [Te EXCEPT !.sessions = PutKey(@, sid, NewSession(source, full)),
                               !.order = Append(@, sid)]
      sess == T1.sessions[sid]
  IN IF Md5(text) = sess.last_hash
     THEN [T1 EXCEPT !.sessions[sid].last_seen = now, !.lastActivity = now]
     ELSE [T1 EXCEPT !.sessions[sid].messages = Appended(@, text),
                     !.sessions[sid].last_hash = Md5(text),
                     !.sessions[sid].last_seen = now,
                     !.lastActivity = now]

\* a variant in which a new message reopens an exported session
UpsertReopening(T, sid, source, text) ==
  LET T1 == IF sid \in DOMAIN T.sessions THEN T
            ELSE LET full == Len(T.order) >= MAX_TRACKED_SESSIONS
                     Te == IF full THEN EvictOldest(T) ELSE T
                 IN [Te EXCEPT !.sessions = PutKey(@, sid, NewSession(source, full)),
                               !.order = Append(@, sid)]
      sess == T1.sessions[sid]
  IN IF Md5(text) = sess.last_hash THEN T1
     ELSE [T1 EXCEPT !.sessions[sid].messages = Appended(@, text),
                     !.sessions[sid].last_hash = Md5(text),
                     !.sessions[sid].last_seen = now,
                     !.sessions[sid].exported = FALSE,
                     !.lastActivity = now]

UpsertSession(T, sid, source, text) ==
  LET T1 == IF sid \in DOMAIN T.sessions THEN T
            ELSE LET full == Len(T.order) >= MAX_TRACKED_SESSIONS
                     Te == IF full THEN EvictOldest(T) ELSE T
                 IN [Te EXCEPT !.sessions = PutKey(@, sid, NewSession(source, full)),
                               !.order = Append(@, sid)]
      sess == T1.sessions[sid]
  IN IF Md5(text) = sess.last_hash THEN T1
     ELSE [T1 EXCEPT !.sessions[sid].messages = Appended(@, text),
                     !.sessions[sid].last_hash = Md5(text),
                     !.sessions[sid].last_seen = now,
                     !.lastActivity = now]

(***************************************************************************)
(* The remote index and the local disk, as the daemon sees them.           *)
(***************************************************************************)
\* resp.status_code < 300 | any other status | the POST raised (timeout, network)
PostOutcomes == IF remote = "up" THEN {"ok"} ELSE {"ok", "status", "exc"}

\* local_dir.mkdir(parents=True, exist_ok=True) can raise only while the history
\* directory does not exist; the outbox lives inside it (PENDING_DIR), so it
\* exists as long as it holds an artifact or an outbox file.
MkdirMayFail(T) == DOMAIN T.artifacts = {} /\ DOMAIN T.outbox = {}

(***************************************************************************)
(* SessionTracker._retry_pending                                           *)
(***************************************************************************)
\* sorted(PENDING_DIR.glob("*.md"), key=st_mtime): every order of the files that
\* is ascending in mtime (glob's own order decides between equal mtimes)
RECURSIVE MtimeOrders(_, _)
MtimeOrders(box, names) ==
  IF names = {} THEN { <<>> }
  ELSE LET firsts == { n \in names : \A m \in names : box[n].mtime <= box[m].mtime }
       IN UNION { { <<n>> \o rest : rest \in MtimeOrders(box, names \ {n}) } : n \in firsts }

\* a retry that takes the whole outbox
WholeOutbox(pending) == pending

\* pending[:8]
Batch(pending) == SubSeq(pending, 1, Min(Len(pending), RETRY_BATCH))

\* history: one POST of a retry batch: the file, its mtime, the outcome, the
\* time of the batch and the time since the last-retry time it found
RetryEntry(T, pf, oc) ==
  [ name |-> pf, mtime |-> T.outbox[pf].mtime, outcome |-> oc,
    at |-> now, gap |-> now - T.since ]

RECURSIVE RetryBatchFrom(_, _, _)
RetryBatchFrom(T, batch, i) ==
  IF i > Len(batch) THEN {T}
  ELSE LET pf == batch[i]
           posted(oc) == [T EXCEPT !.retryLog = Append(@, RetryEntry(T, pf, oc))]
           deleted == [posted("ok") EXCEPT !.outbox = DropKey(@, pf), !.postOK = @ \cup {pf}]
           refused(oc) == [posted(oc) EXCEPT !.postFailed = @ \cup {pf}]
       IN UNION { CASE oc = "ok" -> RetryBatchFrom(deleted, batch, i + 1)
                    [] oc = "status" -> RetryBatchFrom(refused(oc), batch, i + 1)
                    [] OTHER -> {refused(oc)}
                  : oc \in PostOutcomes }

RetryPending(T) ==
  IF ~httpClient THEN {T}
  ELSE IF DOMAIN T.outbox = {} THEN {T}
  ELSE LET T1 == [T EXCEPT !.since = T.lastPendingRetry,
                           !.lastPendingRetry = now, !.retryLog = <<>>]
       IN UNION { RetryBatchFrom(T1, Batch(pending), 1)
                  : pending \in MtimeOrders(T.outbox, DOMAIN T.outbox) }

(***************************************************************************)
(* SessionTracker._export                                                  *)
(***************************************************************************)
\* local_dir / f"{source}_{ts}_{sid[:12]}.md", ts to the second
ArtifactName(sid, source) == [source |-> source, ts |-> now, sid12 |-> Sid12(sid)]

\* the formatted text: title, tags, date and the last 60 messages
Formatted(sid, source, messages, title_prefix) ==
  [ title |-> << IF title_prefix = "" THEN <<"Live", source, "Session">> ELSE <<title_prefix>>,
                 Sid12(sid) >>,
    tags |-> source,
    date |-> now,
    body |-> LastN(messages, EXPORT_LAST_MESSAGES) ]

\* history: one entry of exportLog, taken when the _export call returns
Logged(T, name, formatted, wrote, posted, result) ==
  [T EXCEPT !.exportLog = @ \cup
     { [ name |-> name, formatted |-> formatted,
         wrote |-> wrote, posted |-> posted, result |-> result,
         copyAtEnd |-> name \in DOMAIN T.outbox /\ T.outbox[name].content = formatted,
         originalAtEnd |-> name \in DOMAIN T.artifacts /\ T.artifacts[name] = formatted ] }]

\* a variant that logs "Queued pending sync" without writing the copy
QueuePendingWithoutCopy(T, name, formatted, posted) ==
  { Logged(T, name, formatted, TRUE, posted, "queued") }

\* lines 628-635: the copy into the outbox, or "Failed pending write"
QueuePending(T, name, formatted, posted) ==
  { Logged([T EXCEPT !.outbox = PutKey(@, name, [content |-> formatted, mtime |-> now]),
                     !.everOutbox = @ \cup {name}],
           name, formatted, TRUE, posted, "queued"),
    Logged(T, name, formatted, TRUE, posted, "pending write failed") }

Export(T, sid, source, messages, title_prefix) ==
  LET name == ArtifactName(sid, source)
      formatted == Formatted(sid, source, messages, title_prefix)
      mkdirRaises == IF MkdirMayFail(T) THEN { [T EXCEPT !.raised = TRUE] } ELSE {}
      writeFails == { Logged(T, name, formatted, FALSE, "none", "write failed") }
      written == [T EXCEPT !.artifacts = PutKey(@, name, formatted)]
      posted(oc) ==
        IF oc = "ok"
        THEN { Logged(Td, name, formatted, TRUE, "ok", "synced")
               : Td \in RetryPending([written EXCEPT !.exportCount = @ + 1,
                                                     !.postOK = @ \cup {name}]) }
        ELSE QueuePending([written EXCEPT !.postFailed = @ \cup {name}], name, formatted, oc)
  IN mkdirRaises \cup writeFails \cup
     ( IF httpClient THEN UNION { posted(oc) : oc \in PostOutcomes }
       ELSE QueuePending(written, name, formatted, "none") )

(***************************************************************************)
(* SessionTracker.check_and_export_idle                                    *)
(***************************************************************************)
MinMessages(source) == IF IsShell(source) THEN MIN_MESSAGES_SHELL ELSE MIN_MESSAGES_OTHER

RECURSIVE RemoveAll(_, _)
RemoveAll(T, to_remove) ==
  IF to_remove = <<>> THEN T
  ELSE RemoveAll([T EXCEPT !.sessions = DropKey(@, Head(to_remove)),
                           !.order = SeqWithout(@, Head(to_remove))], Tail(to_remove))

\* history: the number of _export calls this sweep has made so far
IssuedIn(T) ==
  Cardinality({ s \in DOMAIN T.sessions : T.sessions[s].issued.at = now })

RECURSIVE SweepFrom(_, _, _, _)
SweepFrom(T, items, i, to_remove) ==
  IF i > Len(items) THEN { RemoveAll(T, to_remove) }
  ELSE LET sid == items[i]
           data == T.sessions[sid]
       IN IF data.exported
          THEN SweepFrom(T, items, i + 1,
                         IF now - data.last_seen > SESSION_TTL_SEC
                         THEN Append(to_remove, sid) ELSE to_remove)
          ELSE IF now - data.last_seen <= IDLE_TIMEOUT_SEC
          THEN SweepFrom(T, items, i + 1, to_remove)
          ELSE LET met == Len(data.messages) >= MinMessages(data.source)
                   seen == [T EXCEPT !.sessions[sid].firstIdle =
                                        IF @ = "none" THEN (IF met THEN "met" ELSE "below") ELSE @,
                                     !.sessions[sid].calls = IF met THEN @ + 1 ELSE @,
                                     !.sessions[sid].issued =
                                        IF met THEN [at |-> now, nth |-> IssuedIn(T) + 1,
                                                     last_seen |-> data.last_seen]
                                        ELSE @]
                   after == IF met THEN Export(seen, sid, data.source, data.messages, "")
                            ELSE {seen}
               IN UNION { IF Te.raised THEN {Te}
                          ELSE SweepFrom([Te EXCEPT !.sessions[sid].exported = TRUE],
                                         items, i + 1, to_remove)
                          : Te \in after }

CheckAndExportIdleResults(T) ==
  SweepFrom([T EXCEPT !.exportLog = {}, !.retryLog = <<>>], T.order, 1, <<>>)

(***************************************************************************)
(* SessionTracker.maybe_retry_pending                                      *)
(***************************************************************************)
GateClosed(T) == now - T.lastPendingRetry < PENDING_RETRY_INTERVAL_SEC

\* a variant that restarts the interval on every call, also when it does not retry
MaybeRetryRestartsInterval(T) ==
  IF DOMAIN T.outbox = {} THEN {T}
  ELSE IF GateClosed(T) THEN { [T EXCEPT !.lastPendingRetry = now] }
  ELSE RetryPending(T)

\* a variant without the interval gate
MaybeRetryUngated(T) ==
  IF DOMAIN T.outbox = {} THEN {T}
  ELSE RetryPending(T)

MaybeRetryPendingResults(T) ==
  IF DOMAIN T.outbox = {} THEN {T}
  ELSE IF GateClosed(T) THEN {T}
  ELSE RetryPending(T)

(***************************************************************************)
(* Actions of Spec: main()'s loop, with the four tailers seen as the       *)
(* source of _upsert_session calls.                                        *)
(***************************************************************************)
\* a tailer delivers one event: _upsert_session(sid, source, text, now)
Upsert(sid, text) ==
  /\ pc = "poll"
  /\ events < MaxEvents
  /\ events' = events + 1
  /\ Install(UpsertSession(Tracker, sid, SourceOfSid(sid), text))
  /\ UNCHANGED << now, pc, httpClient, remote, tailVars, mainVars, agVars, sanVars >>

\* the tailers have read their files to the end
PollDone ==
  /\ pc = "poll"
  /\ pc' = "sweep"
  /\ UNCHANGED << now, httpClient, remote, events, trackerVars, tailVars, mainVars, agVars,
                  sanVars >>

\* a variant in which an exception of the sweep is not caught by main()
CheckAndExportIdleUncaught ==
  /\ pc = "sweep"
  /\ \E T \in CheckAndExportIdleResults(Tracker) :
       /\ Install(T)
       /\ pc' = IF T.raised THEN "done" ELSE "retry"
  /\ UNCHANGED << now, httpClient, remote, events, tailVars, mainVars, agVars, sanVars >>

\* tracker.check_and_export_idle(); an exception ends the pass (main, line 776)
CheckAndExportIdle ==
  /\ pc = "sweep"
  /\ \E T \in CheckAndExportIdleResults(Tracker) :
       /\ Install(T)
       /\ pc' = IF T.raised THEN "sleep" ELSE "retry"
  /\ UNCHANGED << now, httpClient, remote, events, tailVars, mainVars, agVars, sanVars >>

\* tracker.maybe_retry_pending(); the second call, made in every 60th pass
\* (main, line 774), comes at the same time.time() as this one and finds the
\* outbox empty or the interval gate closed
MaybeRetryPending ==
  /\ pc = "retry"
  /\ \E T \in MaybeRetryPendingResults(Tracker) : Install(T)
  /\ pc' = "sleep"
  /\ UNCHANGED << now, httpClient, remote, events, tailVars, mainVars, agVars, sanVars >>

\* time.sleep(tracker.next_sleep_interval()): at least one second
Sleep ==
  /\ pc = "sleep"
  /\ \E d \in 1..MaxSleep :
       /\ now + d <= MaxTime
       /\ now' = now + d
  /\ pc' = "poll"
  /\ UNCHANGED << httpClient, remote, events, trackerVars, tailVars, mainVars, agVars, sanVars >>

\* the remote index goes down or comes back
RemoteChanges ==
  /\ remote' = IF remote = "up" THEN "flaky" ELSE "up"
  /\ UNCHANGED << now, pc, httpClient, events, trackerVars, tailVars, mainVars, agVars, sanVars >>


\* the variables of the other specifications, at rest
TailAtRest ==
  /\ files = << >>
  /\ file_cursors = << >>
  /\ active_jsonl = << >>
  /\ active_shell = << >>
  /\ errorCount = 0
  /\ tpc = "idle"
  /\ tail = << >>
  /\ cycle = 0
  /\ passLog = {}
  /\ passStart = << >>
  /\ fileOps = 0
  /\ passes = 0

\* no walkthrough directory under ANTIGRAVITY_BRAIN, none seen
AgAtRest ==
  /\ walkthroughs = << >>
  /\ antigravity_sessions = << >>
  /\ agLog = {}

\* no text being sanitized
SanAtRest ==
  /\ san_text = << >>
  /\ san_out = << >>

\* the intervals of this configuration, no sleep computed yet (-1)
IntervalsAtRest ==
  [ idle |-> IDLE_TIMEOUT_SEC, poll |-> POLL_INTERVAL_SEC, fast |-> FAST_POLL_INTERVAL_SEC,
    sleep_s |-> -1 ]

\* OPENVIKING_URL at its default, http://127.0.0.1:8090/api/v1
MainAtRest ==
  /\ url = [scheme |-> "http", loopback |-> TRUE]
  /\ shutdown = FALSE
  /\ interval = IntervalsAtRest

\* SessionTracker.__init__ on a fresh storage root; httpx may be missing
Init ==
  /\ AgAtRest
  /\ SanAtRest
  /\ now = StartTime
  /\ pc = "poll"
  /\ sessions = << >>
  /\ order = << >>
  /\ artifacts = << >>
  /\ outbox = << >>
  /\ exportCount = 0
  /\ lastActivity = 0
  /\ lastPendingRetry = 0
  /\ httpClient \in BOOLEAN
  /\ remote = "flaky"
  /\ postOK = {}
  /\ postFailed = {}
  /\ everOutbox = {}
  /\ exportLog = {}
  /\ retryLog = <<>>
  /\ events = 0
  /\ TailAtRest
  /\ MainAtRest

Next ==
  \/ \E sid \in SIDS, text \in TEXTS : Upsert(sid, text)
  \/ PollDone
  \/ CheckAndExportIdle
  \/ MaybeRetryPending
  \/ Sleep

Spec == Init /\ [][Next]_vars

(***************************************************************************)
(* C1.  Between its creation and its removal, the exporter is invoked for  *)
(* a session at most once: exactly once when the session held its message  *)
(* threshold at the sweep that first found it idle, never when it was      *)
(* below the threshold, the exported flag being set either way.            *)
(***************************************************************************)
C1_ExportedAtMostOnce ==
  \A sid \in DOMAIN sessions :
    /\ sessions[sid].calls <= 1
    /\ sessions[sid].exported =>
         sessions[sid].calls = (IF sessions[sid].firstIdle = "met" THEN 1 ELSE 0)

(***************************************************************************)
(* C2.  The number of tracked sessions never exceeds MAX_TRACKED_SESSIONS. *)
(***************************************************************************)
C2_SessionsWithinCap ==
  /\ Cardinality(DOMAIN sessions) <= MAX_TRACKED_SESSIONS
  /\ Len(order) = Cardinality(DOMAIN sessions)

\* the table is at its cap and the newest session was inserted by evicting one
C2_Witness ==
  /\ Len(order) = MAX_TRACKED_SESSIONS
  /\ sessions[order[Len(order)]].evicting

(***************************************************************************)
(* C3.  For an artifact whose POST succeeded, a file of its basename was   *)
(* in the outbox at some time exactly if a POST for it failed, and no      *)
(* outbox file of that basename remains after the success.                 *)
(***************************************************************************)
C3_OutboxIffPostFailed ==
  \A name \in postOK :
    /\ name \in everOutbox <=> name \in postFailed
    /\ name \notin DOMAIN outbox

(***************************************************************************)
(* C4.  An export that wrote its artifact and whose POST failed, or that   *)
(* has no HTTP client, ends with a copy of the artifact in the outbox      *)
(* under the same basename and with the original present and unchanged.    *)
(***************************************************************************)
NotSynced(e) == e.wrote /\ e.posted \in {"none", "status", "exc"}

LeftOver(i) == [source |-> "claude_code", ts |-> i, sid12 |-> "sess-aaaa"]

LeftOverFile(i, mtime) ==
  [ content |-> Formatted(<<"sess-aaaa", "1">>, "claude_code", <<"x", "y">>, ""),
    mtime |-> mtime ]

LiveInit ==
  /\ AgAtRest
  /\ SanAtRest
  /\ now = StartTime
  /\ pc = "poll"
  /\ sessions = << >>
  /\ order = << >>
  /\ artifacts = << >>
  /\ \E k \in 0..MaxPending : \E mt \in [1..k -> 1..2] :
       outbox = [n \in {LeftOver(i) : i \in 1..k} |-> LeftOverFile(n.ts, mt[n.ts])]
  /\ exportCount = 0
  /\ lastActivity = 0
  /\ lastPendingRetry = 0
  /\ httpClient \in BOOLEAN
  /\ remote \in {"up", "flaky"}
  /\ postOK = {}
  /\ postFailed = {}
  /\ everOutbox = {}
  /\ exportLog = {}
  /\ retryLog = <<>>
  /\ events = MaxEvents
  /\ TailAtRest
  /\ MainAtRest

LiveSleep ==
  /\ pc = "sleep"
  /\ \E d \in 1..MaxSleep :
       /\ now' = Min(now + d, MaxTime)
       /\ lastPendingRetry' = Max(0, lastPendingRetry - (now + d - Min(now + d, MaxTime)))
  /\ pc' = "poll"
  /\ UNCHANGED << sessions, order, artifacts, outbox, exportCount, lastActivity,
                  httpClient, remote, postOK, postFailed, everOutbox, exportLog,
                  retryLog, events,
                  tailVars, mainVars, agVars, sanVars >>

LiveNext ==
  \/ PollDone
  \/ CheckAndExportIdle
  \/ MaybeRetryPending
  \/ LiveSleep
  \/ RemoteChanges

LiveSpec ==
  /\ LiveInit
  /\ [][LiveNext]_vars
  /\ WF_vars(PollDone)
  /\ WF_vars(CheckAndExportIdle)
  /\ WF_vars(MaybeRetryPending)
  /\ WF_vars(LiveSleep)

(***************************************************************************)
(* C5.  If the remote index becomes available and stays available while    *)
(* the daemon keeps running passes, the outbox eventually becomes empty; a *)
(* single queued file is gone after the first scheduler-triggered retry    *)
(* made while the remote is up.                                            *)
(***************************************************************************)
OutboxEmpty == DOMAIN outbox = {}

\* a scheduler-triggered retry: maybe_retry_pending past its interval gate
SchedulerRetry ==
  /\ pc = "retry" /\ pc' = "sleep"
  /\ ~OutboxEmpty
  /\ ~GateClosed(Tracker)

\* the claim as stated
C5_OutboxDrains == <>[](remote = "up") => <>OutboxEmpty

\* the claim as amended: provided the daemon has an HTTP client
C5_OutboxDrainsWithClient ==
  /\ httpClient => (<>[](remote = "up") => <>OutboxEmpty)
  /\ [][ (SchedulerRetry /\ httpClient /\ remote = "up"
            /\ Cardinality(DOMAIN outbox) <= RETRY_BATCH) => (DOMAIN outbox' = {}) ]_vars

\* the remote is up, and a file that was refused earlier has been POSTed and deleted
C5_Witness ==
  /\ remote = "up" /\ httpClient /\ OutboxEmpty
  /\ postOK \cap postFailed # {}

(***************************************************************************)
(* TailSpec: the tailers.  Three monitored files, one per tailer, written  *)
(* by other programs while the daemon runs.  Offsets are counted in lines: *)
(* every line of a file has the same length, one unit.                     *)
(***************************************************************************)
HISTORY == "history.jsonl"       \* ~/.claude/history.jsonl
ZSH_HISTORY == ".zsh_history"    \* ~/.zsh_history
ROLLOUT == "rollout-r1.jsonl"    \* a file under ~/.codex/sessions

\* the tail steps of one pass, in the order main() runs them: poll_jsonl_sources,
\* poll_shell_sources, poll_codex_sessions.  sid is the session id the lines of
\* the file carry (_extract_sid, _parse_shell_line, os.path.basename(path)).
Tailers ==
  << [ kind |-> "jsonl", source |-> "claude_code", path |-> HISTORY,
       sid |-> <<"sess-aaaa", "1">> ],
     [ kind |-> "shell", source |-> "shell_zsh", path |-> ZSH_HISTORY,
       sid |-> <<"shell_zsh_20", "231114">> ],
     [ kind |-> "codex_session", source |-> "codex_session", path |-> ROLLOUT,
       sid |-> <<"rollout-r1.j", "sonl">> ] >>

PATHS == { Tailers[i].path : i \in DOMAIN Tailers }

\* SessionTracker._cursor_key: f"{kind}:{source_name}:{md5(path)[:10]}"
CursorKey(kind, source_name, path) == << kind, source_name, Md5(path) >>

KeyOf(t) == CursorKey(t.kind, t.source, t.path)

\* sorted(keys): the keys are strings and start with their kind;
\* "codex_session:" < "jsonl:" < "shell:"
KindRank(kind) == CASE kind = "codex_session" -> 1 [] kind = "jsonl" -> 2 [] kind = "shell" -> 3

RECURSIVE SortedKeys(_)
SortedKeys(keys) ==
  IF keys = {} THEN <<>>
  ELSE LET least == CHOOSE k \in keys : \A o \in keys : KindRank(k[1]) <= KindRank(o[1])
       IN <<least>> \o SortedKeys(keys \ {least})

\* dict.get(key, default)
GetOr(f, k, default) == IF k \in DOMAIN f THEN f[k] ELSE default

\* os.path.getsize(path); -1 stands for OSError
GetSize(path) == IF files[path].exists THEN Len(files[path].lines) ELSE -1

(***************************************************************************)
(* SessionTracker.refresh_sources                                          *)
(***************************************************************************)
\* the first candidate that exists; "" when none does
Picked(candidates) ==
  LET hits == { i \in DOMAIN candidates : files[candidates[i]].exists }
  IN IF hits = {} THEN ""
     ELSE candidates[CHOOSE i \in hits : \A j \in hits : i <= j]

\* a refresh that starts a newly active file at its first byte
SeedAtStart(path) == 0

\* self.file_cursors[cursor_key] = os.path.getsize(picked["path"])
Seed(path) == GetSize(path)

\* one source of one table: active is active_jsonl or active_shell, candidates
\* the source's paths in the order of JSONL_SOURCES or SHELL_SOURCES
RefreshSource(active, cursors, kind, source, candidates) ==
  LET picked == Picked(candidates)
  IN IF picked # ""
     THEN [ active |-> PutKey(active, source, picked),
            cursors |-> IF source \notin DOMAIN active \/ active[source] # picked
                        THEN PutKey(cursors, CursorKey(kind, source, picked), Seed(picked))
                        ELSE cursors ]
     ELSE [ active |-> DropKey(active, source), cursors |-> cursors ]

\* a source with a single candidate path
RefreshOne(active, cursors, t) ==
  RefreshSource(active, cursors, t.kind, t.source, <<t.path>>)

\* the whole of refresh_sources, from given tables: [jsonl, shell, cursors]
RefreshSources(jsonl, shell, cursors) ==
  LET j == RefreshOne(jsonl, cursors, Tailers[1])
      h == RefreshOne(shell, j.cursors, Tailers[2])
  IN [ jsonl |-> j.active, shell |-> h.active, cursors |-> h.cursors ]

\* a variant that removes only cursors of files that are no longer there
CleanupSparingActive(cursors) ==
  LET live == { KeyOf(Tailers[i]) :
                i \in { j \in DOMAIN Tailers : files[Tailers[j].path].exists } }
      keys == SortedKeys(DOMAIN cursors \ live)
      remove_n == Min(Len(keys), Max(1, Cardinality(DOMAIN cursors) \div 3))
  IN IF Cardinality(DOMAIN cursors) <= MAX_FILE_CURSORS THEN cursors
     ELSE [ k \in DOMAIN cursors \ { keys[i] : i \in 1..remove_n } |-> cursors[k] ]

(***************************************************************************)
(* SessionTracker.cleanup_cursors                                          *)
(***************************************************************************)
CleanupCursors(cursors) ==
  LET n == Cardinality(DOMAIN cursors)
      keys == SortedKeys(DOMAIN cursors)
      remove_n == Max(1, n \div 3)
  IN IF n <= MAX_FILE_CURSORS THEN cursors
     ELSE [ k \in DOMAIN cursors \ { keys[i] : i \in 1..remove_n } |-> cursors[k] ]

(***************************************************************************)
(* One tail step: _poll_jsonl_file, and the loop bodies of                 *)
(* poll_shell_sources and poll_codex_sessions, which are the same code.    *)
(* The step samples the size, then opens and reads the file: other         *)
(* programs may write to the file in between.                              *)
(***************************************************************************)
\* the files a pass tails: the active sources, and what glob finds
Tailed(t) ==
  CASE t.kind = "jsonl" -> t.source \in DOMAIN active_jsonl
    [] t.kind = "shell" -> t.source \in DOMAIN active_shell
    [] t.kind = "codex_session" -> files[t.path].exists

AtTailer(i) == [ i |-> i, cur_size |-> 0, last |-> 0, before |-> -1, reset |-> FALSE ]

\* on to the next tail step of the pass
Advance(i) ==
  IF i < Len(Tailers) THEN tpc' = "tail" /\ tail' = AtTailer(i + 1)
  ELSE tpc' = "end" /\ tail' = AtTailer(i)

\* history: one tail step of the current pass: the size sampled, the cursor
\* before and after the step (-1: none), whether the step found the file
\* shorter than its cursor, the offset it read from, how it ended, and the
\* number of messages it appended to a session that held the same text already
TailEntry(t, cur_size, before, reset, last, result, cursors, repeats) ==
  [ path |-> t.path, key |-> KeyOf(t), cur_size |-> cur_size, before |-> before,
    reset |-> reset, last |-> last, result |-> result,
    after |-> GetOr(cursors, KeyOf(t), -1), repeats |-> repeats ]

\* a variant that keeps the offset when the file has become shorter
KeepOffset(cur_size, last) == last

\* if cur_size < last: last = 0
ResetOffset(cur_size, last) == IF cur_size < last THEN 0 ELSE last

\* cur_size = os.path.getsize(path) ... if cur_size <= last: return
TailBegin ==
  /\ tpc = "tail"
  /\ LET i == tail.i
         t == Tailers[i]
         key == KeyOf(t)
         cur_size == GetSize(t.path)
         before == GetOr(file_cursors, key, -1)
         last0 == GetOr(file_cursors, key, cur_size)
         reset == cur_size < last0
         last == ResetOffset(cur_size, last0)
         set == PutKey(file_cursors, key, cur_size)
     IN IF ~Tailed(t)
        THEN Advance(i) /\ UNCHANGED << file_cursors, passLog >>
        ELSE IF cur_size = -1
        THEN /\ Advance(i)
             /\ passLog' = passLog \cup
                  { TailEntry(t, cur_size, before, FALSE, 0, "no size", file_cursors, 0) }
             /\ UNCHANGED file_cursors
        ELSE IF cur_size <= last
        THEN /\ Advance(i)
             /\ file_cursors' = set
             /\ passLog' = passLog \cup
                  { TailEntry(t, cur_size, before, reset, last, "ok", set, 0) }
        ELSE /\ tpc' = "read"
             /\ tail' = [ i |-> i, cur_size |-> cur_size, last |-> last,
                          before |-> before, reset |-> reset ]
             /\ UNCHANGED << file_cursors, passLog >>
  /\ UNCHANGED << now, pc, httpClient, remote, events, trackerVars, mainVars, files,
                  active_jsonl, active_shell, errorCount, cycle, passStart, fileOps,
                  passes, agVars, sanVars >>

\* a line json.loads cannot decode
BAD == "{bad"

\* a line json.loads decodes, to a list: valid JSON that is not an object
NOT_RECORD == "[1]"

\* data.get(key) in _extract_sid raises AttributeError: data is not a dict
Raises(line) == line = NOT_RECORD

\* the first of the lines at which the loop body raises; Len + 1 when none does
FirstRaise(lines) ==
  LET hits == { i \in DOMAIN lines : Raises(lines[i]) }
  IN IF hits = {} THEN Len(lines) + 1 ELSE CHOOSE i \in hits : \A j \in hits : i <= j

\* json.loads(line) returns
Decodable(line) == line # BAD

\* except json.JSONDecodeError: continue
AfterBadLine(i, n) == i + 1

\* for line in f: ... self._upsert_session(sid, source, text, now), for the first n
\* of the lines; repeats counts the messages appended to a session that held
\* the same text already
RECURSIVE DeliverFrom(_, _, _, _, _, _)
DeliverFrom(T, t, lines, i, n, repeats) ==
  IF i > n THEN [ T |-> T, repeats |-> repeats ]
  ELSE IF t.kind # "shell" /\ ~Decodable(lines[i])
  THEN DeliverFrom(T, t, lines, AfterBadLine(i, n), n, repeats)
  ELSE LET text == lines[i]
           old == IF t.sid \in DOMAIN T.sessions THEN T.sessions[t.sid].messages ELSE <<>>
           held == \E j \in DOMAIN old : old[j] = text
           T2 == UpsertSession(T, t.sid, t.source, text)
           added == T2.sessions[t.sid].messages # old
       IN DeliverFrom(T2, t, lines, i + 1, n,
                      IF held /\ added THEN repeats + 1 ELSE repeats)

\* a variant that leaves the cursor where the read ended
CursorAtEof(cur_size, eof) == eof

\* self.file_cursors[cursor_key] = cur_size
CursorAfterRead(cur_size, eof) == cur_size

\* with open(path) as f: f.seek(last); for line in f: ...; the read goes to the
\* end the file has now, and may raise at any line (the file is gone, an I/O
\* error): except Exception counts the error and leaves the cursor
TailRead ==
  /\ tpc = "read"
  /\ LET i == tail.i
         t == Tailers[i]
         key == KeyOf(t)
         f == files[t.path]
         available == IF f.exists THEN SubSeq(f.lines, tail.last + 1, Len(f.lines)) ELSE <<>>
     IN \E n \in 0..Len(available), ok \in BOOLEAN :
          /\ ok => f.exists /\ n = Len(available)
          /\ LET D == DeliverFrom(Tracker, t, available, 1, n, 0)
                 set == IF ok
                        THEN PutKey(file_cursors, key,
                                    CursorAfterRead(tail.cur_size, Len(f.lines)))
                        ELSE file_cursors
             IN /\ Install(D.T)
                /\ file_cursors' = set
                /\ errorCount' = IF ok THEN errorCount ELSE errorCount + 1
                /\ passLog' = passLog \cup
                     { TailEntry(t, tail.cur_size, tail.before, tail.reset, tail.last,
                                 IF ok THEN "ok" ELSE "failed", set, D.repeats) }
          /\ Advance(i)
  /\ UNCHANGED << now, pc, httpClient, remote, events, mainVars, files, active_jsonl,
                  active_shell, cycle, passStart, fileOps, passes, agVars, sanVars >>

(***************************************************************************)
(* main()'s loop around the tailers.  The clock stands still in TailSpec,  *)
(* so no session is idle when check_and_export_idle runs and the outbox    *)
(* stays empty: the two calls between the tailers and cycle += 1 change    *)
(* nothing.  refresh_sources returns at once unless 120 s have passed      *)
(* since it last ran: both cases are possible at every pass.               *)
(***************************************************************************)
StartPass ==
  /\ tpc = "sleep"
  /\ passes < MaxPasses
  /\ passes' = passes + 1
  /\ passStart' = file_cursors
  /\ passLog' = {}
  /\ \E due \in BOOLEAN :
       LET R == IF due THEN RefreshSources(active_jsonl, active_shell, file_cursors)
                ELSE [ jsonl |-> active_jsonl, shell |-> active_shell,
                       cursors |-> file_cursors ]
       IN /\ active_jsonl' = R.jsonl
          /\ active_shell' = R.shell
          /\ file_cursors' = R.cursors
  /\ tpc' = "tail"
  /\ tail' = AtTailer(1)
  /\ UNCHANGED << now, pc, httpClient, remote, events, trackerVars, mainVars, files,
                  errorCount, cycle, fileOps, agVars, sanVars >>

\* cycle += 1; if cycle % 60 == 0: tracker.cleanup_cursors(); cycle is kept
\* modulo 60
EndPass ==
  /\ tpc = "end"
  /\ cycle' = (cycle + 1) % CLEANUP_EVERY
  /\ file_cursors' = IF cycle' = 0 THEN CleanupCursors(file_cursors) ELSE file_cursors
  /\ tpc' = "sleep"
  /\ UNCHANGED << now, pc, httpClient, remote, events, trackerVars, mainVars, files,
                  active_jsonl, active_shell, errorCount, tail, passLog, passStart,
                  fileOps, passes, agVars, sanVars >>

(***************************************************************************)
(* The programs that write the monitored files.                            *)
(***************************************************************************)
WriteFile(path, exists, lines) ==
  /\ fileOps < MaxFileOps
  /\ fileOps' = fileOps + 1
  /\ files' = [ files EXCEPT ![path] = [ exists |-> exists, lines |-> lines ] ]
  /\ UNCHANGED << now, pc, httpClient, remote, events, trackerVars, mainVars,
                  file_cursors, active_jsonl, active_shell, errorCount, tpc, tail,
                  cycle, passLog, passStart, passes, agVars, sanVars >>

\* a line is appended (the file is created if it is not there)
AppendLine(path, text) == WriteFile(path, TRUE, Append(files[path].lines, text))

\* the file is truncated and written again, shorter than it was
Rewrite(path, lines) ==
  /\ files[path].exists
  /\ Len(lines) < Len(files[path].lines)
  /\ WriteFile(path, TRUE, lines)

\* the file is deleted
Remove(path) ==
  /\ files[path].exists
  /\ WriteFile(path, FALSE, <<>>)

\* what a file is rewritten to
REWRITES == { <<>> } \cup { <<text>> : text \in TEXTS }

\* the tracker of a daemon just constructed
FreshTracker ==
  [ sessions |-> << >>, order |-> << >>, artifacts |-> << >>, outbox |-> << >>,
    exportCount |-> 0, lastActivity |-> 0, lastPendingRetry |-> 0, postOK |-> {},
    postFailed |-> {}, everOutbox |-> {}, exportLog |-> {}, retryLog |-> <<>>,
    raised |-> FALSE, since |-> 0 ]

\* what history.jsonl holds, all of it read, when a run of TailSpec begins
SEEN == { <<>>, <<"x", "y">> }

\* The daemon just constructed (__init__ ran refresh_sources(force=True) over
\* the three empty files), or after CLEANUP_EVERY - 1 passes: the first of
\* them gave the codex file its cursor, and the lines that were appended to
\* history.jsonl in the meantime have been read.
TailInit ==
  /\ AgAtRest
  /\ SanAtRest
  /\ now = StartTime
  /\ pc = "poll"
  /\ cycle \in { 0, CLEANUP_EVERY - 1 }
  /\ \E seen \in SEEN :
       LET T == DeliverFrom(FreshTracker, Tailers[1], seen, 1, Len(seen), 0).T
       IN /\ cycle = 0 => seen = <<>>
          /\ files = [ p \in PATHS |->
                       [ exists |-> TRUE, lines |-> IF p = HISTORY THEN seen ELSE <<>> ] ]
          /\ file_cursors =
               [ k \in { KeyOf(Tailers[i]) : i \in (IF cycle = 0 THEN 1..2 ELSE 1..3) } |->
                 IF k = KeyOf(Tailers[1]) THEN Len(seen) ELSE 0 ]
          /\ sessions = T.sessions
          /\ order = T.order
          /\ lastActivity = T.lastActivity
  /\ artifacts = << >>
  /\ outbox = << >>
  /\ exportCount = 0
  /\ lastPendingRetry = 0
  /\ httpClient = TRUE
  /\ remote = "up"
  /\ postOK = {}
  /\ postFailed = {}
  /\ everOutbox = {}
  /\ exportLog = {}
  /\ retryLog = <<>>
  /\ events = 0
  /\ MainAtRest
  /\ active_jsonl = (Tailers[1].source :> Tailers[1].path)
  /\ active_shell = (Tailers[2].source :> Tailers[2].path)
  /\ errorCount = 0
  /\ tpc = "sleep"
  /\ tail = AtTailer(1)
  /\ passLog = {}
  /\ passStart = file_cursors
  /\ fileOps = 0
  /\ passes = 0

TailNext ==
  \/ StartPass
  \/ TailBegin
  \/ TailRead
  \/ EndPass
  \/ \E path \in PATHS, text \in TEXTS : AppendLine(path, text)
  \/ \E path \in PATHS, lines \in REWRITES : Rewrite(path, lines)
  \/ \E path \in PATHS : Remove(path)

TailSpec == TailInit /\ [][TailNext]_vars

(***************************************************************************)
(* Properties of TailSpec.                                                 *)
(***************************************************************************)
\* a pass of main()'s loop has just been completed
PassEnded == tpc = "sleep" /\ passes > 0

CursorNow(key) == GetOr(file_cursors, key, -1)

\* C6, as stated: at the end of every completed pass, the cursor of a file
\* whose read completed without raising equals the size sampled at the start of
\* the file's tail step, and the cursor of a file whose read raised has the
\* value it had before the pass.
C6_CursorAtEndOfPass ==
  PassEnded =>
    \A e \in passLog :
      /\ e.result = "ok" => CursorNow(e.key) = e.cur_size
      /\ e.result = "failed" => CursorNow(e.key) = GetOr(passStart, e.key, -1)

\* C6, amended: at the end of every tail step, the cursor of the file equals
\* the size sampled at the start of the step if the read completed without
\* raising, and has the value it had before the step if the read raised.
C6_CursorAtEndOfTailStep ==
  \A e \in passLog :
    /\ e.result = "ok" => e.after = e.cur_size
    /\ e.result = "failed" => e.after = e.before

\* a pass in which one read went through and another one raised
C6_Witness ==
  \E e, g \in passLog :
    /\ e.result = "ok" /\ e.before >= 0 /\ e.cur_size > e.before
    /\ g.result = "failed" /\ g.before >= 0

\* the step that completes a pass
EndOfPass == tpc = "end" /\ tpc' = "sleep"

C8_ReplayAddsNothing ==
  \A e \in passLog : e.reset => e.repeats = 0

\* C9: immediately after cleanup_cursors has been called, the cursor table
\* holds at most MAX_FILE_CURSORS entries.
C9_CursorsWithinCapAfterCleanup ==
  PassEnded /\ cycle = 0 => Cardinality(DOMAIN file_cursors) <= MAX_FILE_CURSORS

(***************************************************************************)
(* MainSpec: main() from the start of the process to its exit, over quiet  *)
(* sources and an outbox that may hold files of an earlier run.            *)
(* OPENVIKING_URL is read from the environment at import time              *)
(* (viking_daemon.py:29); of the URL the model keeps its scheme and        *)
(* whether its host is a loopback literal.                                 *)
(***************************************************************************)
URLS == [ scheme : {"http", "https"}, loopback : BOOLEAN ]

MainInit ==
  /\ AgAtRest
  /\ SanAtRest
  /\ now = StartTime
  /\ pc = "start"
  /\ sessions = << >>
  /\ order = << >>
  /\ artifacts = << >>
  /\ \E k \in 0..MaxPending : \E mt \in [1..k -> 1..2] :
       outbox = [n \in {LeftOver(i) : i \in 1..k} |-> LeftOverFile(n.ts, mt[n.ts])]
  /\ exportCount = 0
  /\ lastActivity = 0
  /\ lastPendingRetry = 0
  /\ httpClient \in BOOLEAN
  /\ remote \in {"up", "flaky"}
  /\ postOK = {}
  /\ postFailed = {}
  /\ everOutbox = {}
  /\ exportLog = {}
  /\ retryLog = <<>>
  /\ events = MaxEvents
  /\ TailAtRest
  /\ url \in URLS
  /\ shutdown = FALSE
  /\ interval = IntervalsAtRest

\* main() up to the loop: umask, the log lines (the URL among them),
\* tracker = SessionTracker(), cycle = 0
Start ==
  /\ pc = "start"
  /\ pc' = "head"
  /\ UNCHANGED << now, httpClient, remote, events, trackerVars, tailVars, mainVars, agVars,
                  sanVars >>

\* a variant whose loop does not look at the flag
LoopHeadIgnoresShutdown ==
  /\ pc = "head"
  /\ pc' = "poll"
  /\ UNCHANGED << now, httpClient, remote, events, trackerVars, tailVars, mainVars, agVars,
                  sanVars >>

\* a variant that exports the sessions not yet exported when the loop ends
LoopHeadFlushing ==
  /\ pc = "head"
  /\ pc' = IF shutdown THEN "done" ELSE "poll"
  /\ LET open == { sid \in DOMAIN sessions : ~sessions[sid].exported }
     IN IF shutdown /\ open # {}
        THEN \E sid \in open :
               \E T \in Export(Tracker, sid, sessions[sid].source,
                               sessions[sid].messages, "") : Install(T)
        ELSE UNCHANGED trackerVars
  /\ UNCHANGED << now, httpClient, remote, events, tailVars, mainVars, agVars, sanVars >>

\* while not _shutdown; after the loop main() logs and returns: exit status 0
LoopHead ==
  /\ pc = "head"
  /\ pc' = IF shutdown THEN "done" ELSE "poll"
  /\ UNCHANGED << now, httpClient, remote, events, trackerVars, tailVars, mainVars, agVars,
                  sanVars >>

\* time.sleep(tracker.next_sleep_interval()), then back to the loop head
MainSleep ==
  /\ pc = "sleep"
  /\ \E d \in 1..MaxSleep :
       /\ now' = Min(now + d, MaxTime)
       /\ lastPendingRetry' = Max(0, lastPendingRetry - (now + d - Min(now + d, MaxTime)))
  /\ pc' = "head"
  /\ UNCHANGED << sessions, order, artifacts, outbox, exportCount, lastActivity,
                  httpClient, remote, postOK, postFailed, everOutbox, exportLog,
                  retryLog, events,
                  tailVars, mainVars, agVars, sanVars >>

\* SIGINT or SIGTERM: _handle_signal sets _shutdown
Signal ==
  /\ pc # "done"
  /\ ~shutdown
  /\ shutdown' = TRUE
  /\ UNCHANGED << now, pc, httpClient, remote, events, trackerVars, tailVars, url,
                  interval, agVars, sanVars >>

MainNext ==
  \/ Start
  \/ LoopHead
  \/ PollDone
  \/ CheckAndExportIdle
  \/ MaybeRetryPending
  \/ MainSleep
  \/ Signal

MainSpec == MainInit /\ [][MainNext]_vars

\* the remote URL names a host that is not a loopback literal, and not over https
InsecureUrl == ~url.loopback /\ url.scheme # "https"

\* C10: with such a URL the daemon never gets past its startup: it runs no
\* pass, issues no POST, and does not exit with status 0.
C10_InsecureUrlRefused ==
  InsecureUrl =>
    /\ pc \notin {"poll", "sweep", "retry", "sleep", "done"}
    /\ postOK = {} /\ postFailed = {}

(***************************************************************************)
(* MainLiveSpec: MainSpec with fairness.  Every step of the loop returns   *)
(* (each HTTP call has a timeout, the sleep is finite), so a step that is  *)
(* enabled is eventually taken.  Signals come from outside: no fairness.   *)
(* main() never reads OPENVIKING_URL, so the URL is left at its default.   *)
(***************************************************************************)
MainLiveInit == MainInit /\ MainAtRest

MainLiveSpec ==
  /\ MainLiveInit
  /\ [][MainNext]_vars
  /\ WF_vars(Start)
  /\ WF_vars(LoopHead)
  /\ WF_vars(PollDone)
  /\ WF_vars(CheckAndExportIdle)
  /\ WF_vars(MaybeRetryPending)
  /\ WF_vars(MainSleep)

\* the order of main()'s steps: startup, loop head, the tailers, the idle
\* sweep, the outbox retry, the sleep, the loop head again, and the exit
StepOrder ==
  { <<"start", "head">>, <<"head", "poll">>, <<"poll", "sweep">>, <<"sweep", "retry">>,
    <<"retry", "sleep">>, <<"sleep", "head">>, <<"head", "done">> }

NoPending(T) == FALSE

\* PENDING_DIR.exists() and any(PENDING_DIR.glob("*.md"))
HasPending(T) == DOMAIN T.outbox # {}

\* IDLE_TIMEOUT_SEC - (now - data.get("last_seen", now))
Remaining(T, sid, idle) == idle - (now - T.sessions[sid].last_seen)

\* the sessions the loop over self.sessions.values() does not skip
Unexported(T) == { sid \in DOMAIN T.sessions : ~T.sessions[sid].exported }

\* nearest_due, for a tracker that has a session not yet exported
NearestDue(T, idle) ==
  CHOOSE r \in { Remaining(T, sid, idle) : sid \in Unexported(T) } :
    \A sid \in Unexported(T) : r <= Remaining(T, sid, idle)

NextSleepIntervalFor(T, idle, poll, fast) ==
  LET base == Max(1, poll)
      capped == IF HasPending(T) THEN Min(base, fast) ELSE base
      due == IF Unexported(T) = {} THEN capped
             ELSE LET nearest_due == NearestDue(T, idle)
                  IN IF nearest_due <= fast THEN Min(capped, fast)
                     ELSE IF nearest_due < capped THEN Min(capped, Max(1, nearest_due))
                     ELSE capped
      active == IF T.lastActivity # 0
                   /\ now - T.lastActivity < Max(ACTIVITY_WINDOW_MIN, fast * ACTIVITY_WINDOW_FACTOR)
                THEN Min(due, fast) ELSE due
  IN Max(1, active)

\* time.time() when the function is called
SleepNow == 40
\* how long ago the sessions of the drawn states were last seen
AGES == { 0, 2, 16, 19 }
\* the configurations: this one, and a long idle timeout, a poll interval of
\* 0 (VIKING_POLL_INTERVAL_SEC has no floor), a slower fast poll
INTERVALS ==
  [ idle : { IDLE_TIMEOUT_SEC, 18 }, poll : { 0, POLL_INTERVAL_SEC },
    fast : { FAST_POLL_INTERVAL_SEC, 2 }, sleep_s : { -1 } ]

SLEEP_SIDS == { <<"sess-aaaa", "1">>, <<"sess-aaaa", "2">> }

\* a session last seen age seconds ago
SleepSession(age, exported) ==
  [ NewSession("claude_code", FALSE) EXCEPT
      !.last_seen = SleepNow - age, !.messages = <<"x">>, !.last_hash = Md5("x"),
      !.exported = exported, !.firstIdle = IF exported THEN "below" ELSE "none" ]

\* States of the tracker: up to two sessions, a session being exported only
\* after it was idle for more than the timeout; _last_activity_ts is the time
\* of the latest append, to one of these sessions or to one since removed; the
\* outbox is empty or holds one file.
SleepInit ==
  /\ AgAtRest
  /\ SanAtRest
  /\ now = SleepNow
  /\ pc = "sleep"
  /\ interval \in INTERVALS
  /\ \E sids \in SUBSET SLEEP_SIDS :
       /\ sessions \in [ sids -> { SleepSession(a, e) : a \in AGES, e \in BOOLEAN } ]
       /\ order \in { o \in [ 1..Cardinality(sids) -> sids ] :
                        \A i, j \in DOMAIN o : i # j => o[i] # o[j] }
  /\ \A sid \in DOMAIN sessions :
       sessions[sid].exported => now - sessions[sid].last_seen > interval.idle
  /\ lastActivity \in { 0 } \cup { SleepNow - a : a \in AGES }
  /\ \A sid \in DOMAIN sessions : lastActivity >= sessions[sid].last_seen
  /\ \E k \in 0..1 :
       outbox = [ n \in { LeftOver(i) : i \in 1..k } |-> LeftOverFile(n.ts, 1) ]
  /\ artifacts = << >>
  /\ exportCount = 0
  /\ lastPendingRetry = 0
  /\ httpClient = TRUE
  /\ remote = "up"
  /\ postOK = {}
  /\ postFailed = {}
  /\ everOutbox = {}
  /\ exportLog = {}
  /\ retryLog = <<>>
  /\ events = MaxEvents
  /\ TailAtRest
  /\ url = [scheme |-> "http", loopback |-> TRUE]
  /\ shutdown = FALSE

\* main() calls tracker.next_sleep_interval() (line 779)
NextSleepInterval ==
  /\ pc = "sleep"
  /\ interval.sleep_s = -1
  /\ interval' = [ interval EXCEPT
                     !.sleep_s = NextSleepIntervalFor(Tracker, interval.idle, interval.poll,
                                                      interval.fast) ]
  /\ UNCHANGED << now, pc, httpClient, remote, events, trackerVars, tailVars, url,
                  shutdown, agVars, sanVars >>

SleepNext == NextSleepInterval

SleepSpec == SleepInit /\ [][SleepNext]_vars

MaxOutbox == 9

MTIMES(k) == { [i \in 1..k |-> i],
               [i \in 1..k |-> k + 1 - i],
               [i \in 1..k |-> IF i <= 2 THEN 1 ELSE i] }

BatchInit ==
  /\ AgAtRest
  /\ SanAtRest
  /\ now = StartTime
  /\ pc = "poll"
  /\ sessions = << >>
  /\ order = << >>
  /\ artifacts = << >>
  /\ \E k \in 0..MaxOutbox : \E mt \in MTIMES(k) :
       outbox = [n \in {LeftOver(i) : i \in 1..k} |-> LeftOverFile(n.ts, mt[n.ts])]
  /\ exportCount = 0
  /\ lastActivity = 0
  /\ lastPendingRetry = 0
  /\ httpClient \in BOOLEAN
  /\ remote = "flaky"
  /\ postOK = {}
  /\ postFailed = {}
  /\ everOutbox = {}
  /\ exportLog = {}
  /\ retryLog = <<>>
  /\ events = MaxEvents
  /\ TailAtRest
  /\ MainAtRest

BatchNext ==
  \/ PollDone
  \/ CheckAndExportIdle
  \/ MaybeRetryPending
  \/ Sleep

BatchSpec == BatchInit /\ [][BatchNext]_vars

\* C13: a batch of outbox retry stops at the first entry whose POST fails
\* (non-2xx status, timeout or network error): every POST of a batch but the
\* last one succeeded.
C13_BatchStopsAtFirstFailure ==
  \A i \in 1..(Len(retryLog) - 1) : retryLog[i].outcome = "ok"

\* this step ran a retry batch (the sweep before it cleared the history)
BatchRan == pc = "retry" /\ retryLog' # <<>>

Posted(log, i) == { log[j].name : j \in 1..i }

\* C14: a call of the outbox retry POSTs at most 8 entries, each of them once,
\* oldest mtime first (every POSTed file is at most as new as every file of the
\* outbox not POSTed before it); the files it deletes are exactly those whose
\* POST returned a status below 300, and every other file stays as it was.
C14_RetryBatchOfEightOldestFirst ==
  [][ BatchRan =>
        /\ Len(retryLog') <= RETRY_BATCH
        /\ \A i \in DOMAIN retryLog' :
             /\ retryLog'[i].name \in DOMAIN outbox \ Posted(retryLog', i - 1)
             /\ retryLog'[i].mtime = outbox[retryLog'[i].name].mtime
             /\ \A n \in DOMAIN outbox \ Posted(retryLog', i) :
                  retryLog'[i].mtime <= outbox[n].mtime
        /\ \A n \in DOMAIN outbox :
             n \notin DOMAIN outbox' <=>
               \E i \in DOMAIN retryLog' :
                 retryLog'[i].name = n /\ retryLog'[i].outcome = "ok"
        /\ \A n \in DOMAIN outbox \cap DOMAIN outbox' : outbox'[n] = outbox[n]
        /\ DOMAIN outbox' \subseteq DOMAIN outbox
    ]_vars

C14_Witness ==
  /\ Len(retryLog) = RETRY_BATCH
  /\ \E i \in DOMAIN retryLog : retryLog[i].outcome = "ok"
  /\ \E i \in DOMAIN retryLog :
       retryLog[i].outcome # "ok" /\ retryLog[i].name \in DOMAIN outbox
  /\ DOMAIN outbox \ Posted(retryLog, Len(retryLog)) # {}
  /\ retryLog[1].name # LeftOver(1)

(***************************************************************************)
(* AgSpec: the walkthrough tailer, SessionTracker.poll_antigravity.        *)
(*                                                                         *)
(* ANTIGRAVITY_BRAIN holds two session directories; each has a             *)
(* walkthrough.md or not.  Between the steps of the daemon the file of a   *)
(* directory is written (any other mtime, older ones included, and any     *)
(* content) or removed; only poll_antigravity reads these files, so the    *)
(* changes are taken while the daemon sleeps.  os.path.getmtime raising    *)
(* OSError on a file that os.path.exists has just seen is the file going   *)
(* away in between, which is the step of a pass that finds no file.  The   *)
(* index answers every POST with a 2xx; httpx may be missing.              *)
(***************************************************************************)
MaxMtime == 3

AG_SIDS == { <<"0a1b2c3d-4e5", "f-01">>, <<"9f8e7d6c-5b4", "a-02">> }

\* self._sanitize_text(f.read(50_000)): empty or not
CONTENTS == { "", "w" }

AG_TITLE == "Antigravity Walkthrough"

tailVarsButErrors == << files, file_cursors, active_jsonl, active_shell, tpc, tail, cycle,
                        passLog, passStart, fileOps, passes >>

tailVarsButFileOps == << files, file_cursors, active_jsonl, active_shell, errorCount, tpc,
                         tail, cycle, passLog, passStart, passes >>

AgState ==
  [ T |-> Tracker, ag |-> antigravity_sessions, log |-> agLog, errors |-> errorCount ]

\* an exporter that also fires on an unchanged mtime
NotOlder(mtime, prev) == mtime >= prev

\* if mtime <= prev: continue
Newer(mtime, prev) == mtime > prev

\* the body of the loop for one directory
AgOne(S, sid) ==
  IF sid \notin DOMAIN walkthroughs THEN {S}
  ELSE LET wt == walkthroughs[sid]
           mtime == wt.mtime
       IN IF sid \notin DOMAIN S.ag
          THEN { [S EXCEPT !.ag = PutKey(@, sid, mtime)] }
          ELSE IF ~Newer(mtime, S.ag[sid]) THEN {S}
          ELSE LET failed == [S EXCEPT !.errors = @ + 1]
                   exported(Tr) ==
                     [S EXCEPT !.T = Tr,
                               !.ag = PutKey(@, sid, mtime),
                               !.log = @ \cup {[sid |-> sid, mtime |-> mtime, at |-> now]}]
               IN {failed} \cup
                  ( IF wt.content = "" THEN {S}
                    ELSE { IF Tr.raised THEN failed ELSE exported(Tr)
                           : Tr \in Export(S.T, sid, "antigravity", <<wt.content>>,
                                           AG_TITLE) } )

\* for sdir in dirs, in the order glob returns them
RECURSIVE AgFrom(_, _)
AgFrom(S, dirs) ==
  IF dirs = {} THEN {S}
  ELSE UNION { UNION { AgFrom(S1, dirs \ {d}) : S1 \in AgOne(S, d) } : d \in dirs }

PollAntigravity ==
  /\ pc = "poll"
  /\ \E S \in AgFrom(AgState, AG_SIDS) :
       /\ Install(S.T)
       /\ antigravity_sessions' = S.ag
       /\ agLog' = S.log
       /\ errorCount' = S.errors
  /\ pc' = "sweep"
  /\ UNCHANGED << now, httpClient, remote, events, sanVars, mainVars, walkthroughs,
                  tailVarsButErrors >>

\* the agent writes brain/<sid>/walkthrough.md
Touch(sid) ==
  /\ pc = "sleep"
  /\ fileOps < MaxFileOps
  /\ \E m \in 1..MaxMtime, c \in CONTENTS :
       /\ sid \in DOMAIN walkthroughs => walkthroughs[sid].mtime # m
       /\ walkthroughs' = PutKey(walkthroughs, sid, [mtime |-> m, content |-> c])
  /\ fileOps' = fileOps + 1
  /\ UNCHANGED << now, pc, httpClient, remote, events, trackerVars, sanVars, mainVars,
                  antigravity_sessions, agLog, tailVarsButFileOps >>

RemoveWalkthrough(sid) ==
  /\ pc = "sleep"
  /\ fileOps < MaxFileOps
  /\ sid \in DOMAIN walkthroughs
  /\ walkthroughs' = DropKey(walkthroughs, sid)
  /\ fileOps' = fileOps + 1
  /\ UNCHANGED << now, pc, httpClient, remote, events, trackerVars, sanVars, mainVars,
                  antigravity_sessions, agLog, tailVarsButFileOps >>

WALKTHROUGHS ==
  UNION { [D -> [mtime : 1..2, content : CONTENTS]] : D \in SUBSET AG_SIDS }

AgInit ==
  /\ now = StartTime
  /\ pc = "poll"
  /\ sessions = << >>
  /\ order = << >>
  /\ artifacts = << >>
  /\ outbox = << >>
  /\ exportCount = 0
  /\ lastActivity = 0
  /\ lastPendingRetry = 0
  /\ httpClient \in BOOLEAN
  /\ remote = "up"
  /\ postOK = {}
  /\ postFailed = {}
  /\ everOutbox = {}
  /\ exportLog = {}
  /\ retryLog = <<>>
  /\ events = MaxEvents
  /\ TailAtRest
  /\ MainAtRest
  /\ walkthroughs \in WALKTHROUGHS
  /\ antigravity_sessions = << >>
  /\ agLog = {}
  /\ SanAtRest

AgNext ==
  \/ PollAntigravity
  \/ CheckAndExportIdle
  \/ MaybeRetryPending
  \/ Sleep
  \/ \E sid \in AG_SIDS : Touch(sid)
  \/ \E sid \in AG_SIDS : RemoveWalkthrough(sid)

AgSpec == AgInit /\ [][AgNext]_vars

\* the _export calls this step made for the directory sid
NewExports(sid) == { e \in agLog' \ agLog : e.sid = sid }

\* C15: a pass that sees a walkthrough directory for the first time records
\* the file's mtime and exports nothing; a later pass exports nothing while
\* the mtime is not newer than the recorded one, and exports once, recording
\* the new mtime, when it is strictly newer and the content is non-empty
\* (unless the step failed and counted an error).  Over a run no mtime of a
\* directory is exported twice, nothing but the walkthrough tailer exports a
\* walkthrough, and every artifact of one is titled "Antigravity Walkthrough".
C15_WalkthroughExportedOncePerNewerMtime ==
  /\ [][ pc = "poll" /\ pc' = "sweep" =>
           \A sid \in AG_SIDS :
             LET new == NewExports(sid)
                 seen == sid \in DOMAIN antigravity_sessions
                 wt == walkthroughs[sid]
             IN IF sid \notin DOMAIN walkthroughs
                THEN /\ new = {}
                     /\ seen' = seen
                     /\ seen => antigravity_sessions'[sid] = antigravity_sessions[sid]
                ELSE IF ~seen
                THEN new = {} /\ seen' /\ antigravity_sessions'[sid] = wt.mtime
                ELSE IF wt.mtime <= antigravity_sessions[sid]
                THEN new = {} /\ antigravity_sessions'[sid] = antigravity_sessions[sid]
                ELSE /\ Cardinality(new) <= 1
                     /\ \A e \in new : e.mtime = wt.mtime
                     /\ wt.content = "" => new = {}
                     /\ (wt.content # "" /\ errorCount' = errorCount) => new # {}
                     /\ antigravity_sessions'[sid] =
                          IF new = {} THEN antigravity_sessions[sid] ELSE wt.mtime
       ]_vars
  /\ [][ agLog' # agLog => pc = "poll" /\ pc' = "sweep" ]_vars
  /\ [](\A e1, e2 \in agLog : e1.sid = e2.sid /\ e1.mtime = e2.mtime => e1 = e2)
  /\ [](\A name \in DOMAIN artifacts :
          name.source = "antigravity" =>
            artifacts[name].title = << <<AG_TITLE>>, name.sid12 >>)

C15_Witness ==
  /\ \E e1, e2 \in agLog : e1.sid = e2.sid /\ e1.mtime < e2.mtime /\ e1.at < e2.at
  /\ \E name \in DOMAIN artifacts : name.source = "antigravity"

\* the table refresh_sources keeps for the tailer t
ActiveOf(t, jsonl, shell) == IF t.kind = "jsonl" THEN jsonl ELSE shell

\* the sources refresh_sources picks a path for: JSONL_SOURCES and SHELL_SOURCES
RefreshedTailers == { Tailers[1], Tailers[2] }

\* C16: when a source that went absent becomes active again on its old path
\* while that path's cursor is still in the table, the refresh leaves the
\* cursor as it was, so what was appended after that offset is still to be
\* delivered.
C16_CursorKeptAcrossAbsence ==
  [][ \A t \in RefreshedTailers :
        ( /\ t.source \notin DOMAIN ActiveOf(t, active_jsonl, active_shell)
          /\ t.source \in DOMAIN ActiveOf(t, active_jsonl', active_shell')
          /\ KeyOf(t) \in DOMAIN file_cursors )
        => file_cursors'[KeyOf(t)] = file_cursors[KeyOf(t)]
    ]_vars

(***************************************************************************)
(* KiloSpec: one JSONL source with two candidate paths, "kilo"             *)
(* (JSONL_SOURCES, lines 87-98), its refresh and its tailer.               *)
(*                                                                         *)
(* Other programs append lines to the two files, cut them down to their    *)
(* first lines, and delete them.  The text of a line tells when it was     *)
(* written: "x" while the path was not the source's active path, that is   *)
(* before the refresh that made it active, "y" or a line that is not a     *)
(* JSON object while it was.  refresh_sources runs when it is due,         *)
(* poll_jsonl_sources in every pass: any order of the two is a sequence of *)
(* passes.  The tail step is taken in one piece here, the file does not   *)
(* change under it; a run has MaxPasses of them.                           *)
(***************************************************************************)
KILO_STATE == "state/kilo/prompt-history.jsonl"     \* ~/.local/state/kilo/...
KILO_CONFIG == "config/kilo/prompt-history.jsonl"   \* ~/.config/kilo/...

KILO == << KILO_STATE, KILO_CONFIG >>

KILO_PATHS == { KILO[i] : i \in DOMAIN KILO }

KiloTailer(path) ==
  [ kind |-> "jsonl", source |-> "kilo", path |-> path, sid |-> <<"kilo-sess-01", "a">> ]

KiloActive == "kilo" \in DOMAIN active_jsonl

tailVarsOfKilo == << active_shell, tpc, tail, cycle, passStart >>

\* refresh_sources, when 120 s have passed since it last ran
KiloRefresh ==
  /\ LET R == RefreshSource(active_jsonl, file_cursors, "jsonl", "kilo", KILO)
     IN /\ active_jsonl' = R.active
        /\ file_cursors' = R.cursors
  /\ UNCHANGED << now, pc, httpClient, remote, events, trackerVars, sanVars, mainVars, agVars,
                  files, errorCount, passLog, fileOps, passes, tailVarsOfKilo >>

\* poll_jsonl_sources: _poll_jsonl_file on the active path.  The read ends
\* at the end of the file ("ok"), at any line with an I/O error ("failed"),
\* or at the first line whose decoded value is not a dict ("not a record"):
\* the last two leave through except Exception
KiloPoll ==
  /\ KiloActive
  /\ passes < MaxPasses
  /\ passes' = passes + 1
  /\ LET t == KiloTailer(active_jsonl["kilo"])
         key == KeyOf(t)
         cur_size == GetSize(t.path)
         before == GetOr(file_cursors, key, -1)
         last0 == GetOr(file_cursors, key, cur_size)
         reset == cur_size < last0
         last == ResetOffset(cur_size, last0)
         set == PutKey(file_cursors, key, cur_size)
         lines == files[t.path].lines
         available == SubSeq(lines, last + 1, Len(lines))
     IN IF cur_size = -1
        THEN /\ passLog' = passLog \cup
                  { TailEntry(t, cur_size, before, FALSE, 0, "no size", file_cursors, 0) }
             /\ UNCHANGED << trackerVars, file_cursors, errorCount >>
        ELSE IF cur_size <= last
        THEN /\ file_cursors' = set
             /\ passLog' = passLog \cup
                  { TailEntry(t, cur_size, before, reset, last, "ok", set, 0) }
             /\ UNCHANGED << trackerVars, errorCount >>
        ELSE \E n \in 0..Len(available), result \in {"ok", "failed", "not a record"} :
               /\ n < FirstRaise(available)
               /\ result = "ok" => n = Len(available)
               /\ result = "not a record" => n + 1 = FirstRaise(available)
                                             /\ n < Len(available)
               /\ LET D == DeliverFrom(Tracker, t, available, 1, n, 0)
                      cursors == IF result = "ok"
                                 THEN PutKey(file_cursors, key,
                                             CursorAfterRead(cur_size, Len(lines)))
                                 ELSE file_cursors
                  IN /\ Install(D.T)
                     /\ file_cursors' = cursors
                     /\ errorCount' = IF result = "ok" THEN errorCount ELSE errorCount + 1
                     /\ passLog' = passLog \cup
                          { TailEntry(t, cur_size, before, reset, last, result, cursors,
                                      D.repeats) }
  /\ UNCHANGED << now, pc, httpClient, remote, events, sanVars, mainVars, agVars, files,
                  active_jsonl, fileOps, tailVarsOfKilo >>

KiloWriteFile(path, exists, lines) ==
  /\ fileOps < MaxFileOps
  /\ fileOps' = fileOps + 1
  /\ files' = [ files EXCEPT ![path] = [ exists |-> exists, lines |-> lines ] ]
  /\ UNCHANGED << now, pc, httpClient, remote, events, trackerVars, sanVars, mainVars, agVars,
                  file_cursors, active_jsonl, errorCount, passLog, passes,
                  tailVarsOfKilo >>

\* what is written to a path now
KiloLines(path) ==
  IF KiloActive /\ active_jsonl["kilo"] = path THEN { "y", BAD, NOT_RECORD } ELSE { "x" }

\* a line is appended (the file is created if it is not there)
KiloAppend(path) ==
  \E line \in KiloLines(path) : KiloWriteFile(path, TRUE, Append(files[path].lines, line))

\* the file is cut down to its first k lines
KiloTrim(path) ==
  /\ files[path].exists
  /\ \E k \in 0..(Len(files[path].lines) - 1) :
       KiloWriteFile(path, TRUE, SubSeq(files[path].lines, 1, k))

KiloRemove(path) ==
  /\ files[path].exists
  /\ KiloWriteFile(path, FALSE, <<>>)

\* what a candidate path holds when the daemon starts
KILO_FILES ==
  { [ exists |-> FALSE, lines |-> <<>> ] } \cup
  { [ exists |-> TRUE, lines |-> l ] : l \in { <<>>, <<"x">>, <<"x", "x">> } }

\* SessionTracker.__init__: refresh_sources(force=True) over the files as they are
KiloInit ==
  /\ AgAtRest
  /\ SanAtRest
  /\ MainAtRest
  /\ now = StartTime
  /\ pc = "poll"
  /\ sessions = << >>
  /\ order = << >>
  /\ artifacts = << >>
  /\ outbox = << >>
  /\ exportCount = 0
  /\ lastActivity = 0
  /\ lastPendingRetry = 0
  /\ httpClient \in BOOLEAN
  /\ remote = "up"
  /\ postOK = {}
  /\ postFailed = {}
  /\ everOutbox = {}
  /\ exportLog = {}
  /\ retryLog = <<>>
  /\ events = MaxEvents
  /\ files \in [ KILO_PATHS -> KILO_FILES ]
  /\ LET R == RefreshSource(<< >>, << >>, "jsonl", "kilo", KILO)
     IN active_jsonl = R.active /\ file_cursors = R.cursors
  /\ active_shell = << >>
  /\ errorCount = 0
  /\ tpc = "idle"
  /\ tail = << >>
  /\ cycle = 0
  /\ passLog = {}
  /\ passStart = << >>
  /\ fileOps = 0
  /\ passes = 0

KiloNext ==
  \/ KiloRefresh
  \/ KiloPoll
  \/ \E path \in KILO_PATHS : KiloAppend(path)
  \/ \E path \in KILO_PATHS : KiloTrim(path)
  \/ \E path \in KILO_PATHS : KiloRemove(path)

KiloSpec == KiloInit /\ [][KiloNext]_vars

\* the session of the kilo source holds the text
KiloHolds(text) ==
  \E sid \in DOMAIN sessions :
    \E j \in DOMAIN sessions[sid].messages : sessions[sid].messages[j] = text

\* this step made the source active, or active on another path
KiloActivated ==
  /\ "kilo" \in DOMAIN active_jsonl'
  /\ ~KiloActive \/ active_jsonl["kilo"] # active_jsonl'["kilo"]

\* the active file is shorter than its cursor: the next tail step resets to 0
KiloShorter ==
  /\ KiloActive
  /\ LET path == active_jsonl["kilo"]
     IN /\ files[path].exists
        /\ Len(files[path].lines) < GetOr(file_cursors, CursorKey("jsonl", "kilo", path), 0)

NewTailEntries == passLog' \ passLog

\* C18: every failure of a tail step (of getsize, of open or of read) adds
\* one to the error counter and leaves the file's cursor as it was.
C18_TailFailureCounted ==
  [][ \A e \in NewTailEntries :
        e.result # "ok" => /\ errorCount' = errorCount + 1
                           /\ e.after = e.before
    ]_vars

\* C19: a tail step that meets a line it cannot decode as a key-value record
\* skips the line: it goes on to the end of the file and leaves the cursor at
\* the size it sampled, so that the line is not read again.
C19_UndecodableLineSkipped ==
  \A e \in passLog : e.result = "not a record" => e.after = e.cur_size

\* this step invoked _export for the session
ExportInvoked(sid) ==
  /\ sid \in DOMAIN sessions
  /\ sid \in DOMAIN sessions'
  /\ sessions'[sid].calls > sessions[sid].calls

\* C20: when the local write of an idle export fails (the history directory
\* cannot be created or the file cannot be written: no artifact of the
\* export's name exists after the sweep), no POST was issued for it, no outbox
\* entry was created, and the sweep has marked the session exported, so that
\* later passes do not export it again.
C20_WriteFailureMarksExported ==
  [][ \A sid \in DOMAIN sessions :
        LET name == ArtifactName(sid, sessions[sid].source)
        IN ExportInvoked(sid) /\ name \notin DOMAIN artifacts'
           => /\ name \notin postOK' \cup postFailed'
              /\ name \notin DOMAIN outbox'
              /\ sessions'[sid].exported
    ]_vars

(***************************************************************************)
(* LoopSpec: main() with sessions coming in and with the exceptions that   *)
(* reach its except clause (line 776).  Two steps of a pass let one        *)
(* through: refresh_sources, whose os.path.getsize (lines 219, 238) raises *)
(* OSError when the file goes between the exists test and the call, and    *)
(* check_and_export_idle, through _export's mkdir (line 589).  The tailers *)
(* and the POSTs catch their own.  The sleep (line 779) is outside the     *)
(* try; next_sleep_interval guards its one file system probe.  Each step   *)
(* returns, so an enabled step is eventually taken; sessions, failures and *)
(* signals come from outside.                                              *)
(***************************************************************************)
LoopInit ==
  /\ AgAtRest
  /\ SanAtRest
  /\ now = StartTime
  /\ pc = "start"
  /\ sessions = << >>
  /\ order = << >>
  /\ artifacts = << >>
  /\ outbox = << >>
  /\ exportCount = 0
  /\ lastActivity = 0
  /\ lastPendingRetry = 0
  /\ httpClient \in BOOLEAN
  /\ remote = "flaky"
  /\ postOK = {}
  /\ postFailed = {}
  /\ everOutbox = {}
  /\ exportLog = {}
  /\ retryLog = <<>>
  /\ events = 0
  /\ TailAtRest
  /\ MainAtRest

\* tracker.refresh_sources() raises: the rest of the pass is skipped
RefreshRaises ==
  /\ pc = "poll"
  /\ pc' = "sleep"
  /\ UNCHANGED << now, httpClient, remote, events, trackerVars, tailVars, mainVars, agVars,
                  sanVars >>

\* time.sleep(tracker.next_sleep_interval()), then back to the loop head
LoopSleep ==
  /\ pc = "sleep"
  /\ \E d \in 1..MaxSleep :
       /\ now + d <= MaxTime
       /\ now' = now + d
  /\ pc' = "head"
  /\ UNCHANGED << httpClient, remote, events, trackerVars, tailVars, mainVars, agVars, sanVars >>

\* the one session of this specification
LOOP_SID == <<"sess-aaaa", "1">>

LoopNext ==
  \/ Start
  \/ LoopHead
  \/ \E text \in TEXTS : Upsert(LOOP_SID, text)
  \/ RefreshRaises
  \/ PollDone
  \/ CheckAndExportIdle
  \/ MaybeRetryPending
  \/ LoopSleep
  \/ Signal

LoopSpec ==
  /\ LoopInit
  /\ [][LoopNext]_vars
  /\ WF_vars(Start)
  /\ WF_vars(LoopHead)
  /\ WF_vars(PollDone)
  /\ WF_vars(CheckAndExportIdle)
  /\ WF_vars(MaybeRetryPending)
  /\ WF_vars(LoopSleep)

\* the steps by which a pass goes on, or is cut short by an exception
PassSteps ==
  { <<"poll", "sweep">>, <<"sweep", "retry">>, <<"retry", "sleep">>,
    <<"poll", "sleep">>, <<"sweep", "sleep">> }

\* C21: an error raised inside a pass does not end the process.  Whatever a
\* step of the pass does, the pass goes on or goes to the sleep; after the
\* sleep comes the loop head, which starts the next pass unless the shutdown
\* flag is set; main() ends at the loop head, with the flag set, and nowhere
\* else.  (Time is followed up to MaxTime.)
C21_ErrorsDoNotEndLoop ==
  /\ [][ pc' # pc =>
           /\ pc \in {"poll", "sweep", "retry"} => <<pc, pc'>> \in PassSteps
           /\ pc = "sleep" => pc' = "head"
           /\ pc = "head" => pc' = IF shutdown THEN "done" ELSE "poll"
           /\ pc' = "done" => pc = "head" /\ shutdown ]_vars
  /\ (pc \in {"poll", "sweep", "retry", "sleep"} /\ now < MaxTime) ~> (pc = "head")
  /\ (pc = "head" /\ ~shutdown) ~> (pc = "poll" \/ shutdown)

\* _export's mkdir raised in a sweep (the exporter was invoked, the session
\* is not marked), and the next pass has begun
C21_Witness ==
  /\ pc = "poll"
  /\ ~shutdown
  /\ \E sid \in DOMAIN sessions : sessions[sid].calls = 1 /\ ~sessions[sid].exported

\* the sessions for which the idle sweep has invoked the exporter
Issued == { sid \in DOMAIN sessions : sessions[sid].issued.nth > 0 }

\* the export of a was issued before the export of b
IssuedBefore(a, b) ==
  \/ sessions[a].issued.at < sessions[b].issued.at
  \/ sessions[a].issued.at = sessions[b].issued.at
     /\ sessions[a].issued.nth < sessions[b].issued.nth

\* last_seen + IDLE_TIMEOUT_SEC, with last_seen as the sweep saw it
ExpiredAt(sid) == sessions[sid].issued.last_seen + IDLE_TIMEOUT_SEC

\* C22: of two sessions whose exports were issued, the one that became
\* idle-expired earlier had its export issued first, also when both were
\* exported in the same sweep.
C22_ExportsInExpiryOrder ==
  \A a \in Issued, b \in Issued :
    ExpiredAt(a) < ExpiredAt(b) => IssuedBefore(a, b)

\* C23: no artifact is overwritten: every export of the latest sweep that
\* wrote its artifact still has it on disk, under its name and with the
\* content that export wrote.
C23_ArtifactNeverOverwritten ==
  \A e \in exportLog :
    e.wrote => e.name \in DOMAIN artifacts /\ artifacts[e.name] = e.formatted

(***************************************************************************)
(* SessionTracker._sanitize_text, and SanitizeSpec: the function applied   *)
(* to a text, and again to what it returned.                               *)
(*                                                                         *)
(* A text is a sequence of runs [c, n]: n characters of class c.  The      *)
(* classes are "sp" (white space), "ch" (a character that is neither white *)
(* space, a quote, "=", ":" nor a word character, such as "#"), "star"     *)
(* ("*"), and the lexemes the patterns look for, each a run of its own     *)
(* length: "api_key=", "token=", "password=", "--api-key", "--token", SK   *)
(* (sk- and 16 word characters) and "sk-".  Part of a lexeme, left by the  *)
(* cut at 4000 characters, matches no pattern and counts as "ch".          *)
(***************************************************************************)
TEXT_LIMIT == 4000

SK == "sk-0123456789abcdef"

LexLen(c) ==
  CASE c = "api_key=" -> 8
    [] c = "token=" -> 6
    [] c = "password=" -> 9
    [] c = "--api-key" -> 9
    [] c = "--token" -> 7
    [] c = SK -> 19
    [] c = "sk-" -> 3

Run(c, n) == [c |-> c, n |-> n]
Lex(c) == Run(c, LexLen(c))

\* the replacement text "***"
STARS == Run("star", 3)

\* SECRET_REPLACEMENTS, in order: what each pattern looks for
SECRET_REPLACEMENTS ==
  << [kind |-> "key", lex |-> "api_key="], [kind |-> "key", lex |-> "token="],
     [kind |-> "key", lex |-> "password="], [kind |-> "flag", lex |-> "--api-key"],
     [kind |-> "flag", lex |-> "--token"], [kind |-> "sk", lex |-> SK] >>

Merges(c) == c \in {"sp", "ch", "star"}

\* the same text with adjacent runs of one class written as one run
RECURSIVE Norm(_)
Norm(t) ==
  IF Len(t) < 2 THEN t
  ELSE IF t[1].c = t[2].c /\ Merges(t[1].c)
       THEN Norm(<<Run(t[1].c, t[1].n + t[2].n)>> \o SubSeq(t, 3, Len(t)))
       ELSE <<t[1]>> \o Norm(Tail(t))

RECURSIVE TextLen(_)
TextLen(t) == IF t = <<>> THEN 0 ELSE t[1].n + TextLen(Tail(t))

\* text.strip()
RECURSIVE Strip(_)
Strip(t) ==
  IF t = <<>> THEN t
  ELSE IF t[1].c = "sp" THEN Strip(Tail(t))
  ELSE IF t[Len(t)].c = "sp" THEN Strip(SubSeq(t, 1, Len(t) - 1))
  ELSE t

\* the end of the run of non-space characters that starts at j ([^\s]+)
RECURSIVE ValueEnd(_, _)
ValueEnd(t, j) ==
  IF j > Len(t) \/ t[j].c = "sp" THEN j ELSE ValueEnd(t, j + 1)

\* pattern.sub(repl, out) from run i on: leftmost matches, not overlapping.
\* "key" is (word\s*[=:]\s*)([^\s"']+), "flag" is (--word\s+)([^\s]+): the
\* value, as far as the next white space, becomes "***"
RECURSIVE SubFrom(_, _, _)
SubFrom(p, t, i) ==
  IF i > Len(t) THEN <<>>
  ELSE IF t[i].c # p.lex THEN <<t[i]>> \o SubFrom(p, t, i + 1)
  ELSE IF p.kind = "sk" THEN <<Lex("sk-"), STARS>> \o SubFrom(p, t, i + 1)
  ELSE LET spaced == i < Len(t) /\ t[i + 1].c = "sp"
           j == IF spaced THEN i + 2 ELSE i + 1
           k == ValueEnd(t, j)
           matches == k > j /\ (p.kind = "flag" => spaced)
       IN IF matches
          THEN SubSeq(t, i, j - 1) \o <<STARS>> \o SubFrom(p, t, k)
          ELSE <<t[i]>> \o SubFrom(p, t, i + 1)

\* for pattern, repl in SECRET_REPLACEMENTS: out = pattern.sub(repl, out)
RECURSIVE Redacted(_, _)
Redacted(t, i) ==
  IF i > Len(SECRET_REPLACEMENTS) THEN t
  ELSE Redacted(SubFrom(SECRET_REPLACEMENTS[i], t, 1), i + 1)

\* out[:k]
RECURSIVE Cut(_, _)
Cut(t, k) ==
  IF t = <<>> \/ k = 0 THEN <<>>
  ELSE IF t[1].n <= k THEN <<t[1]>> \o Cut(Tail(t), k - t[1].n)
  ELSE <<Run(IF Merges(t[1].c) THEN t[1].c ELSE "ch", k)>>

SanitizeText(t) ==
  IF t = <<>> THEN <<>>
  ELSE LET redacted == Redacted(Strip(t), 1)
       IN Norm(IF TextLen(redacted) > TEXT_LIMIT THEN Cut(redacted, TEXT_LIMIT)
               ELSE redacted)

\* the texts of SanitizeSpec: up to MaxRuns runs, the long ones close to the limit
MaxRuns == 4

LONG == {TEXT_LIMIT - 9, TEXT_LIMIT - 7, TEXT_LIMIT - 1}

RUNS ==
  {Run("sp", 1)} \cup {Run("ch", n) : n \in {1} \cup LONG}
  \cup {Lex(c) : c \in {"api_key=", "token=", "--token", SK}}

\* SK stands between characters that are not word characters and not "-", so
\* that the \b on either side of the sixth pattern holds and the match ends
\* with the lexeme
Apart(t) ==
  \A i \in 1..Len(t) :
    t[i].c = SK =>
      /\ i > 1 => t[i - 1].c \in {"sp", "ch", "api_key=", "token="}
      /\ i < Len(t) => t[i + 1].c \in {"sp", "ch"}

SAN_TEXTS ==
  { Norm(t) : t \in { s \in UNION { [1..n -> RUNS] : n \in 0..MaxRuns } : Apart(s) } }

SanInit ==
  /\ AgAtRest
  /\ now = StartTime
  /\ pc = "poll"
  /\ sessions = << >>
  /\ order = << >>
  /\ artifacts = << >>
  /\ outbox = << >>
  /\ exportCount = 0
  /\ lastActivity = 0
  /\ lastPendingRetry = 0
  /\ httpClient = TRUE
  /\ remote = "up"
  /\ postOK = {}
  /\ postFailed = {}
  /\ everOutbox = {}
  /\ exportLog = {}
  /\ retryLog = <<>>
  /\ events = 0
  /\ TailAtRest
  /\ MainAtRest
  /\ san_text \in SAN_TEXTS
  /\ san_out = << >>

\* text = self._sanitize_text(text), first on the text, then on the result
Sanitize ==
  /\ Len(san_out) < 2
  /\ san_out' = Append(san_out, SanitizeText(IF san_out = <<>> THEN san_text
                                             ELSE san_out[Len(san_out)]))
  /\ UNCHANGED << now, pc, httpClient, remote, events, trackerVars, tailVars, mainVars,
                  agVars, san_text >>

SanNext == Sanitize

SanitizeSpec == SanInit /\ [][SanNext]_vars

\* C24: the sanitizer is idempotent and length-bounded: applied to its own
\* result it returns that result, and what it returns has at most 4000
\* characters.
C24_SanitizeIdempotentAndBounded ==
  /\ \A i \in 1..Len(san_out) : TextLen(san_out[i]) <= TEXT_LIMIT
  /\ Len(san_out) = 2 => san_out[2] = san_out[1]

\* the sweep finds the session not exported and idle for more than IDLE_TIMEOUT_SEC
IdleUnexported(sid) ==
  /\ ~sessions[sid].exported
  /\ now - sessions[sid].last_seen > IDLE_TIMEOUT_SEC

\* C25: a sweep invokes the exporter for a session exactly when the session
\* is not exported, idle for more than IDLE_TIMEOUT_SEC and holds at least
\* MinMessages of its source; and every session it finds not exported and
\* idle for that long is marked exported when the sweep ends.
C25_SweepExportsAndMarks ==
  [][ pc = "sweep" /\ pc' # pc =>
        \A sid \in DOMAIN sessions :
          /\ ExportInvoked(sid) <=>
               /\ IdleUnexported(sid)
               /\ Len(sessions[sid].messages) >= MinMessages(sessions[sid].source)
          /\ IdleUnexported(sid) => sid \in DOMAIN sessions' /\ sessions'[sid].exported
    ]_vars

\* the session-ids an _upsert_session call has added to, and taken from, the table
Inserted == DOMAIN sessions' \ DOMAIN sessions
Evicted == DOMAIN sessions \ DOMAIN sessions'

\* the exported sessions if there is one, all sessions otherwise
EvictionPool ==
  IF \E s \in DOMAIN sessions : sessions[s].exported
  THEN { s \in DOMAIN sessions : sessions[s].exported }
  ELSE DOMAIN sessions

\* C26: an upsert of an unknown session-id with the table at its cap evicts
\* exactly one session, then inserts: the exported session with the smallest
\* last_seen if a session is exported, the session with the smallest
\* last_seen otherwise.  An upsert of an unknown session-id below the cap, and
\* an upsert of a tracked session-id, evict nothing.
C26_EvictsOneOldestAtCap ==
  [][ events' = events + 1 =>
        /\ Cardinality(Inserted) <= 1
        /\ Inserted = {} \/ Len(order) < MAX_TRACKED_SESSIONS => Evicted = {}
        /\ Inserted # {} /\ Len(order) >= MAX_TRACKED_SESSIONS =>
             \E v \in EvictionPool :
               /\ Evicted = {v}
               /\ \A s \in EvictionPool : sessions[v].last_seen <= sessions[s].last_seen
    ]_vars

\* a session-id was inserted with the table at its cap, in place of another;
\* a session seen before the insert, and not exported, is still tracked
C26_Witness ==
  \E sid \in DOMAIN sessions, o \in DOMAIN sessions :
    /\ sessions[sid].evicting
    /\ sessions[sid].messages = <<"x">>
    /\ ~sessions[o].exported
    /\ sessions[o].last_seen < sessions[sid].last_seen
    /\ Len(order) = MAX_TRACKED_SESSIONS

(***************************************************************************)
(* TrimSpec: one session receiving more messages than the configured       *)
(* MAX_MESSAGES_PER_SESSION, which is what makes _upsert_session trim.     *)
(***************************************************************************)
MaxAppends == 6

TRIM_SID == <<"sess-trim", "1">>

TRIM_TEXTS == {"x", "y", "z"}

TrimInit ==
  /\ AgAtRest
  /\ SanAtRest
  /\ now = StartTime
  /\ pc = "poll"
  /\ sessions = << >>
  /\ order = << >>
  /\ artifacts = << >>
  /\ outbox = << >>
  /\ exportCount = 0
  /\ lastActivity = 0
  /\ lastPendingRetry = 0
  /\ httpClient = TRUE
  /\ remote = "up"
  /\ postOK = {}
  /\ postFailed = {}
  /\ everOutbox = {}
  /\ exportLog = {}
  /\ retryLog = <<>>
  /\ events = 0
  /\ TailAtRest
  /\ MainAtRest

\* a tailer delivers the next message of the session
Deliver(text) ==
  /\ events < MaxAppends
  /\ events' = events + 1
  /\ Install(UpsertSession(Tracker, TRIM_SID, SourceOfSid(TRIM_SID), text))
  /\ UNCHANGED << now, pc, httpClient, remote, tailVars, mainVars, agVars, sanVars >>

TrimNext == \E text \in TRIM_TEXTS : Deliver(text)

TrimSpec == TrimInit /\ [][TrimNext]_vars

\* C27: a session never holds more than MAX_MESSAGES_PER_SESSION messages,
\* and an append that takes the count over the cap leaves the session with
\* exactly the 200 most recent messages, in their order.
C27_MessagesWithinCap ==
  /\ [](\A sid \in DOMAIN sessions :
          Len(sessions[sid].messages) <= MAX_MESSAGES_PER_SESSION)
  /\ [][ \A sid \in DOMAIN sessions \cap DOMAIN sessions' :
           /\ Len(sessions[sid].messages) = MAX_MESSAGES_PER_SESSION
           /\ sessions'[sid].last_hash # sessions[sid].last_hash
           => \E text \in TRIM_TEXTS :
                /\ Len(sessions'[sid].messages) = KEEP_ON_OVERFLOW
                /\ sessions'[sid].messages =
                     LastN(Append(sessions[sid].messages, text), KEEP_ON_OVERFLOW)
       ]_vars

\* C28: an upsert on a tracked session with a text whose hash is the
\* session's last_hash changes nothing in the tracker: not the messages,
\* last_hash, last_seen or the exported flag of any session, and not the
\* last-activity time; and no session holds two adjacent equal messages.
C28_RepeatedTextChangesNothing ==
  /\ [][ \A sid \in SIDS, text \in TEXTS :
           /\ Upsert(sid, text)
           /\ sid \in DOMAIN sessions
           /\ Md5(text) = sessions[sid].last_hash
           => UNCHANGED << sessions, order, lastActivity >> ]_vars
  /\ [](\A sid \in DOMAIN sessions :
          \A i \in 1..(Len(sessions[sid].messages) - 1) :
            sessions[sid].messages[i] # sessions[sid].messages[i + 1])

\* two upserts have been made, the second with the text of the first: one
\* session, one message
C28_Witness ==
  /\ now = StartTime
  /\ events = 2
  /\ \E sid \in SIDS : DOMAIN sessions = {sid} /\ Len(sessions[sid].messages) = 1

\* C29: a sweep removes a session exactly if the session was exported when
\* the sweep came to it and was last seen more than SESSION_TTL_SEC ago; it
\* removes no session that is not exported, and none that it marks exported
\* itself.
C29_SweepRemovesExpiredExported ==
  [][ pc = "sweep" /\ pc' # pc =>
        \A sid \in DOMAIN sessions :
          /\ sid \notin DOMAIN sessions' <=>
               /\ sessions[sid].exported
               /\ now - sessions[sid].last_seen > SESSION_TTL_SEC
          /\ ~sessions[sid].exported => sid \in DOMAIN sessions'
    ]_vars

(***************************************************************************)
(* RetrySpec: passes over PENDING_RETRY_INTERVAL_SEC and more, with files  *)
(* left in the outbox by an earlier run and one session, just received,    *)
(* that the sweep exports when it is idle.  The index answers each POST    *)
(* with a 2xx, another status or an exception.                             *)
(***************************************************************************)
RetryHorizon == 8

RETRY_SID == <<"sess-aaaa", "1">>

RetryInit ==
  /\ AgAtRest
  /\ SanAtRest
  /\ now = StartTime
  /\ pc = "poll"
  /\ sessions = PutKey(<< >>, RETRY_SID,
                       [NewSession(SourceOfSid(RETRY_SID), FALSE) EXCEPT
                          !.messages = <<"x", "y">>, !.last_hash = Md5("y")])
  /\ order = <<RETRY_SID>>
  /\ artifacts = << >>
  /\ \E k \in 0..MaxPending : \E mt \in [1..k -> 1..2] :
       outbox = [n \in {LeftOver(i) : i \in 1..k} |-> LeftOverFile(n.ts, mt[n.ts])]
  /\ exportCount = 0
  /\ lastActivity = now
  /\ lastPendingRetry = 0
  /\ httpClient \in BOOLEAN
  /\ remote = "flaky"
  /\ postOK = {}
  /\ postFailed = {}
  /\ everOutbox = {}
  /\ exportLog = {}
  /\ retryLog = <<>>
  /\ events = MaxEvents
  /\ TailAtRest
  /\ MainAtRest

\* time.sleep(tracker.next_sleep_interval()): at least one second
RetrySleep ==
  /\ pc = "sleep"
  /\ \E d \in 1..MaxSleep :
       /\ now + d <= StartTime + RetryHorizon
       /\ now' = now + d
  /\ pc' = "poll"
  /\ UNCHANGED << httpClient, remote, events, trackerVars, tailVars, mainVars, agVars,
                  sanVars >>

RetryNext ==
  \/ PollDone
  \/ CheckAndExportIdle
  \/ MaybeRetryPending
  \/ RetrySleep

RetrySpec == RetryInit /\ [][RetryNext]_vars

\* C30: the last-retry time is the time of the latest retry batch, whatever
\* started it; a batch started by maybe_retry_pending comes at least
\* PENDING_RETRY_INTERVAL_SEC after that time; and the retry that _export
\* makes after a successful POST runs whatever that time is, and sets the
\* last-retry time, when it finds the outbox non-empty.
C30_RetriesSpacedByInterval ==
  /\ [](\A i \in 1..Len(retryLog) : retryLog[i].at = lastPendingRetry)
  /\ [][ pc = "retry" /\ pc' # pc /\ retryLog' # retryLog =>
           /\ retryLog' # <<>>
           /\ \A i \in 1..Len(retryLog') :
                retryLog'[i].at = now /\ retryLog'[i].gap >= PENDING_RETRY_INTERVAL_SEC
       ]_vars
  /\ [][ /\ pc = "sweep" /\ pc' # pc
         /\ DOMAIN outbox # {}
         /\ \E e \in exportLog' : e.result = "synced"
         => lastPendingRetry' = now /\ retryLog' # <<>> ]_vars

\* maybe_retry_pending has run a batch, PENDING_RETRY_INTERVAL_SEC or more
\* after the batch before it
C30_Witness ==
  /\ pc = "sleep"
  /\ retryLog # <<>>
  /\ retryLog[1].at = now
  /\ retryLog[1].gap >= PENDING_RETRY_INTERVAL_SEC
  /\ retryLog[1].gap < now

\* C31: an upsert that appends a message to an exported session leaves the
\* session exported and sets last_seen to the time of the append; as long as
\* an exported session stays tracked the exporter is not invoked for it
\* again; and the sweep removes a session only when the latest append to it
\* is more than SESSION_TTL_SEC old.
C31_AppendAfterExportNotExported ==
  /\ [][ \A sid \in SIDS, text \in TEXTS :
           /\ Upsert(sid, text)
           /\ sid \in DOMAIN sessions
           /\ sessions[sid].exported
           /\ Md5(text) # sessions[sid].last_hash
           => /\ sessions'[sid].exported
              /\ sessions'[sid].last_seen = now
              /\ sessions'[sid].messages = Appended(sessions[sid].messages, text) ]_vars
  /\ [][ \A sid \in DOMAIN sessions \cap DOMAIN sessions' :
           sessions[sid].exported =>
             /\ sessions'[sid].exported
             /\ sessions'[sid].calls = sessions[sid].calls ]_vars
  /\ [][ pc = "sweep" /\ pc' # pc =>
           \A sid \in DOMAIN sessions \ DOMAIN sessions' :
             now - sessions[sid].last_seen > SESSION_TTL_SEC ]_vars

\* a session was exported with two messages and has received a third since
C31_Witness ==
  \E sid \in DOMAIN sessions :
    /\ sessions[sid].exported
    /\ sessions[sid].calls = 1
    /\ Len(sessions[sid].messages) = 3
    /\ sessions[sid].issued.last_seen < sessions[sid].last_seen
    /\ pc = "sleep"

\* C32: a session that holds at least MinMessages of its source leaves the
\* table, by eviction or by the sweep, only after the exporter has been
\* invoked for it.
C32_NoRemovalBeforeExport ==
  [][ \A sid \in DOMAIN sessions \ DOMAIN sessions' :
        Len(sessions[sid].messages) >= MinMessages(sessions[sid].source)
        => sessions[sid].calls >= 1 ]_vars


(***************************************************************************)
(* GrowSpec: the tailer of history.jsonl while its writer only appends     *)
(* complete lines, before and during a pass.  No file is removed or        *)
(* rewritten, and no pass of the run reaches cleanup_cursors.              *)
(***************************************************************************)
MaxGrow == 3

\* the writer appends one complete line to history.jsonl
Grow(text) ==
  /\ fileOps < MaxGrow
  /\ fileOps' = fileOps + 1
  /\ files' = [ files EXCEPT ![HISTORY].lines = Append(@, text) ]
  /\ UNCHANGED << now, pc, httpClient, remote, events, trackerVars, mainVars,
                  file_cursors, active_jsonl, active_shell, errorCount, tpc, tail,
                  cycle, passLog, passStart, passes, agVars, sanVars >>

GrowInit == TailInit /\ cycle = 0

GrowNext ==
  \/ StartPass
  \/ TailBegin
  \/ TailRead
  \/ EndPass
  \/ \E text \in TEXTS : Grow(text)

GrowSpec == GrowInit /\ [][GrowNext]_vars

\* the messages the session of history.jsonl holds once every line of the file
\* has been passed to _upsert_session exactly once, in file order
OnceEach ==
  LET lines == files[HISTORY].lines
      T == DeliverFrom(FreshTracker, Tailers[1], lines, 1, Len(lines), 0).T
  IN IF Tailers[1].sid \in DOMAIN T.sessions
     THEN T.sessions[Tailers[1].sid].messages ELSE <<>>

\* C33: when history.jsonl only grows by appended lines and no read raised,
\* then after every pass that left the cursor at the end of the file the
\* session holds what one delivery of each line gives, also when lines were
\* appended between a tail step's size sample and its read.
C33_EachLineDeliveredOnce ==
  /\ tpc = "sleep" /\ passes > 0 /\ errorCount = 0
  /\ CursorNow(KeyOf(Tailers[1])) = Len(files[HISTORY].lines)
  => (IF Tailers[1].sid \in DOMAIN sessions
      THEN sessions[Tailers[1].sid].messages ELSE <<>>) = OnceEach


C35_PostedPathStillExists ==
  [][ /\ \A e \in exportLog' \ exportLog :
           e.posted = "ok" => e.name \in DOMAIN artifacts'
      /\ retryLog' # retryLog =>
           \A i \in DOMAIN retryLog' :
             retryLog'[i].outcome = "ok" => retryLog'[i].name \in DOMAIN outbox' ]_vars


\* the files and POSTs of an export of the session the table holds under sid:
\* _export puts its time in the name, and an export made for an earlier session
\* of the same id is older than the session's last message
ExportsOf(sid) ==
  { name \in DOMAIN artifacts \cup DOMAIN outbox \cup postOK \cup postFailed :
      /\ name.sid12 = Sid12(sid) /\ name.source = sessions[sid].source
      /\ name.ts >= sessions[sid].last_seen }

\* C36: leaving the loop on the shutdown flag exports nothing: the step to the
\* end of main(), and every step after it, changes neither the session table
\* nor the files under history/, the outbox or the POSTs made; and a session
\* that is tracked and not exported when main() returns has no artifact, no
\* POST and no outbox entry, whatever the number of its messages.
C36_NoFlushAtShutdown ==
  /\ [][ pc' = "done" => UNCHANGED << sessions, artifacts, outbox, postOK, postFailed,
                                      exportCount >> ]_vars
  /\ [](pc = "done" => \A sid \in DOMAIN sessions :
                         ~sessions[sid].exported => ExportsOf(sid) = {})

\* main() has returned and left behind a session that holds its threshold of
\* messages, was never passed to the exporter and has no file or POST
C36_Witness ==
  /\ pc = "done" /\ shutdown
  /\ \E sid \in DOMAIN sessions :
       /\ ~sessions[sid].exported /\ sessions[sid].calls = 0
       /\ Len(sessions[sid].messages) >= MinMessages(sessions[sid].source)
       /\ ExportsOf(sid) = {}

====
